---- MODULE Spec2Model ----
(***************************************************************************)
(* The plan / execute / verify pipeline of the repository: ExecutorAgent   *)
(* (agents/executor.py), VerifierAgent (agents/verifier.py), PlannerAgent  *)
(* (agents/planner.py) and AgentOrchestrator (agents/orchestrator.py).     *)
(*                                                                         *)
(* Python's None is the string NONE; an Optional object is a sequence of   *)
(* length 0 (absent) or 1 (present).  Floats that the code obtains as a    *)
(* quotient of two small integers are kept as that quotient [num, den] and *)
(* compared by cross-multiplication.  Wall-clock times are not modelled.   *)
(***************************************************************************)
EXTENDS Integers, Sequences, FiniteSets, TLC

\* ------------------------------------------------------------------ bounds
\* Longest plan; step numbers and dependencies range over 1..MaxSteps.
MaxSteps == 2
\* Most step results of a run result handed to the verifier alone.
MaxResults == 4
\* Largest max_attempts handed to run_with_retry.
MaxAttempts == 2
\* Most words of a task text that follow one of "in", "for", "at".
MaxWords == 2

\* --------------------------------------------------------------- constants
\* ExecutorAgent.max_retries
max_retries == 3

NONE == "None"
COMPLETED == "completed"
FAILED == "failed"
PENDING == "pending"

\* ToolType members used by the code (planner.py 72, 83; verifier.py 144, 148)
ToolTypes == {"github", "weather"}

\* Python truthiness of an Optional[str]
Truthy(s) == s # NONE /\ s # ""

\* ------------------------------------------------------------- data model
\* Field defaults of StepResult (models.py is not part of the sources).
StepResultDefaults ==
    [tool_result |-> <<>>, retry_count |-> 0, error_message |-> NONE]

\* StepResult(step_number=.., status=.., error_message=..)
StepResultError(n, status, msg) ==
    [step_number |-> n, status |-> status,
     tool_result |-> StepResultDefaults.tool_result,
     retry_count |-> StepResultDefaults.retry_count,
     error_message |-> msg]

\* BaseTool._create_result
create_result(tool, success, data, error) ==
    [tool |-> tool, success |-> success, data |-> data, error |-> error]

\* What one call of a tool's execute does: it returns a ToolResult
\* (successful with a payload, or failed with an optional error text) or it
\* raises an exception whose str() is the error field.
ExecuteOutcomes ==
    { [kind |-> "return", success |-> TRUE, data |-> "payload", error |-> NONE] }
    \cup { [kind |-> "return", success |-> FALSE, data |-> NONE, error |-> e] :
             e \in {NONE, "Rate limit"} }
    \cup { [kind |-> "raise", success |-> FALSE, data |-> NONE, error |-> m] :
             m \in {"timeout"} }

\* Mutant: the exception's message is dropped.
safe_execute_no_message(tool, out) ==
    IF out.kind = "raise"
    THEN create_result(tool, FALSE, NONE, NONE)
    ELSE create_result(tool, out.success, out.data, out.error)

\* BaseTool.safe_execute: the ToolResult handed to the executor
safe_execute(tool, out) ==
    IF out.kind = "raise"
    THEN create_result(tool, FALSE, NONE, out.error)
    ELSE create_result(tool, out.success, out.data, out.error)

\* Plan steps and plans (what ExecutionPlan validation admits, bounded)
PlanSteps(T) ==
    [step_number : 1..MaxSteps, tool : T, depends_on : SUBSET (1..MaxSteps)]

RECURSIVE SeqsUpTo(_, _)
SeqsUpTo(S, n) ==
    IF n = 0 THEN { <<>> }
    ELSE LET shorter == SeqsUpTo(S, n - 1)
         IN shorter \cup { Append(s, x) : s \in { t \in shorter : Len(t) = n - 1 }, x \in S }

Plans(T) == SeqsUpTo(PlanSteps(T), MaxSteps)

\* ------------------------------------------------------------------ state
VARIABLES
    entry,            \* method called: "executor", "verifier", "run" or
                      \* "run_with_retry" ("execute_task" until the handler chose)
    request,          \* Optional TaskRequest handled by execute_task
    callbacks,        \* AgentOrchestrator: _on_plan_created, _on_verification_complete
    max_attempts,     \* run_with_retry: max_attempts
    task,             \* the task text, as the keyword sets it matches
    registry,         \* ToolRegistry._tools: tool type -> registered tool object
    pc,               \* position of the single flow of control
    plan,             \* ExecutionPlan.steps
    idx,              \* position of ExecutorAgent.run's for loop in plan
    step_results,     \* ExecutorAgent.run: step_results
    completed_steps,  \* ExecutorAgent.run: completed_steps
    caller,           \* who awaits _execute_step: "run" or "recovery"
    cur,              \* position in plan of the step _execute_step works on
    retry_count,      \* _execute_step: retry_count
    last_error,       \* _execute_step: last_error
    execution_result, \* Optional ExecutionResult (absent until ExecutorAgent.run returns)
    verification,     \* Optional VerificationResult of AgentOrchestrator.run
    failed_steps,     \* _retry_failed_steps: failed_steps, as positions in plan
    fidx,             \* position of the recovery loop in failed_steps
    response,         \* Optional AgentResponse built by the last AgentOrchestrator.run
    attempt,          \* run_with_retry: attempt
    best_response,    \* run_with_retry: best_response (Optional)
    returned,         \* what the entry point returned (Optional)
    invoked,          \* history: tool invocations per plan position in this run
    call_log,         \* history of the current / last _execute_step call
    hist,             \* history of the current AgentOrchestrator.run
    raised,           \* Optional exception that left the method called
    http,             \* Optional answer of execute_task
    runs,             \* history: AgentOrchestrator.run invocations so far
    attempts_made,    \* history: the responses run_with_retry has received
    verify_log,       \* history: the VerifierAgent.run calls of a verifier driver
    reg_log,          \* history: the register / clear calls made on ToolRegistry
    held,             \* what the last ToolRegistry.get / get_all returned to its caller
    other,            \* position of another thread constructing an AgentOrchestrator
    suspended         \* Optional frame of another AgentOrchestrator.run on the event loop

reg_vars == <<reg_log, held, other>>
env_vars == <<entry, max_attempts, registry, request, callbacks, reg_vars, suspended>>
obs_vars == <<raised, http, runs, attempts_made, verify_log>>
loop_vars == <<idx, step_results, completed_steps>>
call_vars == <<caller, cur, retry_count, last_error>>
rec_vars == <<failed_steps, fidx>>
retry_vars == <<attempt, best_response, returned>>
vars == <<entry, max_attempts, task, registry, pc, plan, idx, step_results,
          completed_steps, caller, cur, retry_count, last_error,
          execution_result, verification, failed_steps, fidx, response,
          attempt, best_response, returned, invoked, call_log, hist,
          request, callbacks, raised, http, runs, attempts_made, verify_log,
          reg_log, held, other, suspended>>

\* No _execute_step call has been made yet.
NoCall == [pos |-> 0, who |-> NONE, n |-> 0, first_success |-> 0,
           out |-> <<>>, last |-> <<>>, result |-> <<>>, waits |-> <<>>]

\* Nothing has happened yet in this AgentOrchestrator.run.
NoHist == [planner |-> NONE, first_pass |-> <<>>, recovering |-> FALSE,
           recov_results |-> <<>>, verified_on |-> <<>>, verifier |-> NONE,
           n_verify |-> 0, fired |-> <<>>]

\* history per plan position: tool invocations, _execute_step calls made by
\* ExecutorAgent.run and by _retry_failed_steps
NotInvoked == [tools |-> 0, run |-> 0, recovery |-> 0]

EmptyDict == [k \in {} |-> 0]

\* AgentOrchestrator.__init__: no callback is set
NoCallbacks == [on_plan_created |-> "unset", on_step_started |-> "unset",
                on_step_completed |-> "unset", on_verification_complete |-> "unset"]

\* No ToolRegistry.get / get_all has returned anything yet.
NoQuery == [op |-> NONE, arg |-> NONE, ret |-> << >>, at |-> 0]

\* Nothing has been raised, answered or recorded yet.
InitObs ==
    /\ raised = << >>
    /\ http = << >>
    /\ runs = 0
    /\ attempts_made = << >>
    /\ verify_log = << >>
    /\ reg_log = << >>
    /\ held = NoQuery
    /\ other = "absent"
    /\ suspended = << >>

Min(S) == CHOOSE x \in S : \A y \in S : x <= y

\* ----------------------------------------------------------- ToolRegistry
\* A tool object: GitHubTool() or WeatherTool(), told apart by the
\* construction that made it.
Tool(tool_type, made_by) == [tool_type |-> tool_type, made_by |-> made_by]

\* ToolRegistry.register: cls._tools[tool.tool_type] = tool
register(reg, tool) ==
    [k \in DOMAIN reg \cup {tool.tool_type} |->
        IF k = tool.tool_type THEN tool ELSE reg[k]]

\* ToolRegistry.clear: cls._tools.clear()
clear(reg) == EmptyDict

\* ToolRegistry.get_all: cls._tools.copy()
get_all(reg) == reg

\* ToolRegistry.get: cls._tools.get(tool_type), on the mapping reg
get(reg, tool_type) == IF tool_type \in DOMAIN reg THEN <<reg[tool_type]>> ELSE <<>>

RegistryGet(tool_type) == get(registry, tool_type)

\* ExecutorAgent._register_tools, by the construction numbered made_by
register_tools(reg, made_by) ==
    register(register(clear(reg), Tool("github", made_by)), Tool("weather", made_by))

\* The registry after the one AgentOrchestrator of the process was constructed.
StartupRegistry == register_tools(EmptyDict, 1)

\* --------------------------------------------------------------- callbacks
\* history: "if self._on_x: self._on_x(arg)" calls the callback when it is set
fire(cb, name, arg) ==
    IF cb = "unset" THEN << >> ELSE << [cb |-> name, arg |-> arg] >>

\* Mutant: on_step_started is called when it is set.
execute_with_callbacks_steps(cbs) == fire(cbs.on_step_started, "on_step_started", NONE)

\* history: the callbacks _execute_with_callbacks calls: both of its
\* branches only await self.executor.run(plan)
execute_with_callbacks(cbs) ==
    IF cbs.on_step_started = "unset" /\ cbs.on_step_completed = "unset"
    THEN << >> ELSE << >>

\* ---------------------------------------------------------- ExecutorAgent
\* Mutant: a dependency counts as met as soon as a result is recorded for it.
dependencies_met_any_status(depends_on, completed) ==
    \A dep \in depends_on : dep \in DOMAIN completed

\* Mutant: a dependency with no recorded result counts as met.
dependencies_met_unless_failed(depends_on, completed) ==
    \A dep \in depends_on \cap DOMAIN completed : completed[dep].status = COMPLETED

\* ExecutorAgent._dependencies_met
dependencies_met(depends_on, completed) ==
    \A dep \in depends_on :
        /\ dep \in DOMAIN completed
        /\ completed[dep].status = COMPLETED

\* sum(1 for r in step_results if r.status == COMPLETED)
success_count(results) ==
    Cardinality({ i \in DOMAIN results : results[i].status = COMPLETED })

\* Mutant: partial_success is set whenever some step completed.
MakeExecutionResult_partial_any(results) ==
    [step_results |-> results,
     success |-> (success_count(results) = Len(results)),
     partial_success |-> (success_count(results) > 0)]

\* ExecutorAgent.run, lines 76-88
MakeExecutionResult(results) ==
    LET all_success == success_count(results) = Len(results)
    IN [step_results |-> results,
        success |-> all_success,
        partial_success |-> (success_count(results) > 0 /\ ~all_success)]

\* "Tool not found: {step.tool}"
ToolNotFound(tool) == "Tool not found: " \o tool

\* Mutant: the loop runs once more than max_retries.
attempts_remain_inclusive(rc) == rc <= max_retries

\* _execute_step, line 126: the while condition
attempts_remain(rc) == rc < max_retries

\* Mutant: retry_count counts the successful attempt too.
completed_result_counts_attempts(n, tool_result, rc) ==
    [step_number |-> n, status |-> COMPLETED, tool_result |-> <<tool_result>>,
     retry_count |-> rc + 1, error_message |-> NONE]

\* _execute_step, lines 131-136: the result of a successful attempt
completed_result(n, tool_result, rc) ==
    [step_number |-> n, status |-> COMPLETED, tool_result |-> <<tool_result>>,
     retry_count |-> rc, error_message |-> StepResultDefaults.error_message]

\* Mutant: the status is left at its initial value.
exhausted_result_pending(n, rc, err) ==
    [step_number |-> n, status |-> PENDING, tool_result |-> << >>,
     retry_count |-> rc,
     error_message |-> IF Truthy(err) THEN err ELSE "Max retries exceeded"]

\* _execute_step, lines 150-155: the result once the loop has ended
exhausted_result(n, rc, err) ==
    [step_number |-> n, status |-> FAILED,
     tool_result |-> StepResultDefaults.tool_result, retry_count |-> rc,
     error_message |-> IF Truthy(err) THEN err ELSE "Max retries exceeded"]

\* orchestrator.py 125-128: replace the first entry with the step's number
replace_result(results, n, new_result) ==
    LET matches == { i \in DOMAIN results : results[i].step_number = n }
    IN IF matches = {} THEN results
       ELSE [results EXCEPT ![Min(matches)] = new_result]

\* The caller of _execute_step takes the result: ExecutorAgent.run appends it
\* (executor.py 71-72), _retry_failed_steps puts it into the run result
\* (orchestrator.py 123-128).
Deliver(who, pos, result) ==
    IF who = "run"
    THEN /\ step_results' = Append(step_results, result)
         /\ completed_steps' =
                [k \in DOMAIN completed_steps \cup {plan[pos].step_number} |->
                    IF k = plan[pos].step_number THEN result ELSE completed_steps[k]]
         /\ idx' = idx + 1
         /\ pc' = "exec_loop"
         /\ UNCHANGED <<execution_result, fidx, hist>>
    ELSE /\ execution_result' =
                <<[execution_result[1] EXCEPT !.step_results =
                      replace_result(@, plan[pos].step_number, result)]>>
         /\ fidx' = fidx + 1
         /\ pc' = "recover_loop"
         /\ hist' = [hist EXCEPT !.recov_results[pos] = <<result>>]
         /\ UNCHANGED <<step_results, completed_steps, idx>>

\* history: _execute_step is called by who for the step at pos
Called(who, pos) ==
    IF who = "run" THEN [invoked EXCEPT ![pos].run = @ + 1]
    ELSE [invoked EXCEPT ![pos].recovery = @ + 1]

\* _execute_step up to its first await (lines 113-128): the registry lookup,
\* then the first tool invocation.
ExecuteStepCall(who, pos) ==
    LET step == plan[pos]
        tool == RegistryGet(step.tool)
    IN IF tool = <<>>
       THEN LET result == StepResultError(step.step_number, FAILED, ToolNotFound(step.tool))
            IN /\ Deliver(who, pos, result)
               /\ call_log' = [NoCall EXCEPT !.pos = pos, !.who = who, !.result = <<result>>]
               /\ invoked' = Called(who, pos)
               /\ UNCHANGED call_vars
       ELSE IF attempts_remain(0)
       THEN /\ caller' = who
            /\ cur' = pos
            /\ retry_count' = 0
            /\ last_error' = NONE
            /\ pc' = "invoke"
            /\ invoked' = [Called(who, pos) EXCEPT ![pos].tools = @ + 1]
            /\ call_log' = [NoCall EXCEPT !.pos = pos, !.who = who, !.n = 1]
            /\ UNCHANGED <<loop_vars, execution_result, fidx, hist>>
       ELSE LET result == exhausted_result(step.step_number, 0, NONE)
            IN /\ Deliver(who, pos, result)
               /\ call_log' = [NoCall EXCEPT !.pos = pos, !.who = who, !.result = <<result>>]
               /\ invoked' = Called(who, pos)
               /\ UNCHANGED call_vars

\* ExecutorAgent.run, lines 55-59
ExecutorRunStart ==
    /\ pc = "executing"
    /\ step_results' = <<>>
    /\ completed_steps' = EmptyDict
    /\ idx' = 1
    /\ invoked' = [i \in 1..Len(plan) |-> NotInvoked]
    /\ hist' = [hist EXCEPT !.fired = @ \o execute_with_callbacks(callbacks)]
    /\ pc' = "exec_loop"
    /\ UNCHANGED <<env_vars, obs_vars, task, plan, call_vars, execution_result, verification,
                   rec_vars, response, retry_vars, call_log>>

\* ExecutorAgent.run, lines 61-72: one iteration of the for loop, up to the
\* first await of _execute_step
RunStep ==
    /\ pc = "exec_loop"
    /\ idx <= Len(plan)
    /\ IF ~dependencies_met(plan[idx].depends_on, completed_steps)
       THEN /\ Deliver("run", idx,
                       StepResultError(plan[idx].step_number, FAILED, "Dependencies not met"))
            /\ UNCHANGED <<call_vars, invoked, call_log>>
       ELSE ExecuteStepCall("run", idx)
    /\ UNCHANGED <<env_vars, obs_vars, task, plan, verification, failed_steps, response, retry_vars>>

\* _execute_step, lines 128-155: an awaited safe_execute returns
ToolReturns(Outcomes) ==
    /\ pc = "invoke"
    /\ \E out \in Outcomes :
         LET step == plan[cur]
             tool_result == safe_execute(step.tool, out)
         IN IF tool_result.success
            THEN LET result == completed_result(step.step_number, tool_result, retry_count)
                 IN /\ Deliver(caller, cur, result)
                    /\ retry_count' = 0
                    /\ last_error' = NONE
                    /\ call_log' = [call_log EXCEPT !.first_success = call_log.n,
                                                    !.out = <<out>>,
                                                    !.last = <<tool_result>>,
                                                    !.result = <<result>>]
                    /\ UNCHANGED <<caller, cur>>
            ELSE IF attempts_remain(retry_count + 1)
            THEN /\ last_error' = tool_result.error
                 /\ retry_count' = retry_count + 1
                 /\ pc' = "sleep"
                 /\ call_log' = [call_log EXCEPT !.out = <<out>>,
                                                 !.last = <<tool_result>>]
                 /\ UNCHANGED <<caller, cur, loop_vars, execution_result, fidx, hist>>
            ELSE LET result == exhausted_result(step.step_number, retry_count + 1,
                                                tool_result.error)
                 IN /\ Deliver(caller, cur, result)
                    /\ retry_count' = 0
                    /\ last_error' = NONE
                    /\ call_log' = [call_log EXCEPT !.out = <<out>>,
                                                    !.last = <<tool_result>>,
                                                    !.result = <<result>>]
                    /\ UNCHANGED <<caller, cur>>
    /\ UNCHANGED <<env_vars, obs_vars, task, plan, verification, failed_steps, response,
                   retry_vars, invoked>>

\* Mutant: every sleep lasts one second.
backoff_delay_constant(rc) == 1

\* _execute_step, line 143: asyncio.sleep(1 * retry_count), in seconds
backoff_delay(rc) == 1 * rc

\* _execute_step, lines 142-143 and 126-128: the backoff sleep of
\* backoff_delay(retry_count) seconds ends and the tool is invoked again
Backoff ==
    /\ pc = "sleep"
    /\ pc' = "invoke"
    /\ invoked' = [invoked EXCEPT ![cur].tools = @ + 1]
    /\ call_log' = [call_log EXCEPT !.n = @ + 1,
                                    !.waits = Append(@, backoff_delay(retry_count))]
    /\ UNCHANGED <<env_vars, obs_vars, task, plan, loop_vars, call_vars, execution_result,
                   verification, rec_vars, response, retry_vars, hist>>

\* ExecutorAgent.run, lines 74-88: the loop is over, the run result is returned
ExecutorRunReturn ==
    /\ pc = "exec_loop"
    /\ idx > Len(plan)
    /\ execution_result' = <<MakeExecutionResult(step_results)>>
    /\ step_results' = <<>>
    /\ completed_steps' = EmptyDict
    /\ idx' = 0
    /\ pc' = IF entry = "executor" THEN "done" ELSE "verifying"
    /\ hist' = [hist EXCEPT !.first_pass = <<MakeExecutionResult(step_results)>>]
    /\ UNCHANGED <<env_vars, obs_vars, task, plan, call_vars, verification, rec_vars,
                   response, retry_vars, invoked, call_log>>

\* ----------------------------------------------------------- PlannerAgent
\* A task text, as what _create_fallback_plan and _extract_city read of it:
\* whether a repository keyword, a weather keyword and one of the listed
\* cities occur in it, and, in their order, the words that follow "in", "for"
\* or "at" once ".,!?" is stripped from both ends: "upper" for a word that
\* starts with an upper-case letter, "lower" for any other non-empty word,
\* "empty" for a word of nothing but those characters.
WordKinds == {"upper", "lower", "empty"}

Tasks ==
    [github_kw : BOOLEAN, weather_kw : BOOLEAN, common_city : BOOLEAN,
     after_prep : SeqsUpTo(WordKinds, MaxWords)]

\* The exception an entry point lets go
Exception(type, origin) == [type |-> type, origin |-> origin]

\* PlannerAgent._extract_city, lines 125-133: potential_city[0] of an empty
\* word raises IndexError
scan_words(words) ==
    LET F[i \in 0..Len(words)] ==
            IF i = Len(words) THEN "London"
            ELSE IF words[i + 1] = "empty" THEN "IndexError"
            ELSE IF words[i + 1] = "upper" THEN "Word"
            ELSE F[i + 1]
    IN F[0]

\* PlannerAgent._extract_city: the listed city, the word found, the default
\* "London", or the IndexError it raises
extract_city(t) ==
    IF t.common_city THEN "City" ELSE scan_words(t.after_prep)

\* Mutant: step_num is not incremented.
next_step_num_stuck(steps) == 1

\* _create_fallback_plan: step_num, which starts at 1 and is incremented
\* after every step appended
next_step_num(steps) == Len(steps) + 1

\* PlannerAgent._create_fallback_plan: the steps, the parameters of each
\* step (the query is what _extract_search_query returns or the first 50
\* characters of the task; the city is what _extract_city returns), or the
\* exception raised
create_fallback_plan(t) ==
    LET github_steps ==
            IF t.github_kw
            THEN << [step_number |-> next_step_num(<< >>), tool |-> "github",
                     depends_on |-> {}] >>
            ELSE << >>
        github_params ==
            IF t.github_kw
            THEN << [query |-> "_extract_search_query(task)", limit |-> 5] >>
            ELSE << >>
        steps ==
            IF t.weather_kw
            THEN Append(github_steps,
                        [step_number |-> next_step_num(github_steps), tool |-> "weather",
                         depends_on |-> {}])
            ELSE github_steps
        params ==
            IF t.weather_kw
            THEN Append(github_params, [city |-> extract_city(t)])
            ELSE github_params
    IN IF t.weather_kw /\ extract_city(t) = "IndexError"
       THEN [raised |-> << Exception("IndexError", "planner") >>, steps |-> << >>,
             parameters |-> << >>]
       ELSE [raised |-> << >>,
             steps |-> IF steps = << >>
                       THEN << [step_number |-> 1, tool |-> "github", depends_on |-> {}] >>
                       ELSE steps,
             parameters |-> IF steps = << >>
                            THEN << [query |-> "task[:50]", limit |-> 5] >>
                            ELSE params]

\* The task texts of the pipeline specifications: no listed city and no
\* "in", "for" or "at" in them.
PipelineTasks == { t \in Tasks : ~t.common_city /\ t.after_prep = << >> }

\* The plans the text-generation service answers with in the pipeline
\* specification: plans of repository searches, the steps numbered freely
\* (in any order, possibly twice), each depending on nothing or on step 1
\* (which may be the step itself, an earlier or a later step, or no step).
LLMPlans ==
    { p \in Plans({"github"}) : \A i \in DOMAIN p : p[i].depends_on \subseteq {1} }

\* An exception leaves the method called.
Raise(exc) ==
    /\ raised' = << exc >>
    /\ pc' = "raised"

\* A callback is called: it is not set, it returns, or it faults.
CallbackFaults(cb) == cb = "faults"

\* AgentOrchestrator.run, lines 59-67: PlannerAgent.run answers with the
\* generated plan, or with the fallback plan when generate faults; then
\* on_plan_created is called with the plan
PlannerRun(Generated) ==
    /\ pc = "planning"
    /\ runs' = runs + 1
    /\ \/ \E p \in Generated :
            /\ hist' = [hist EXCEPT
                  !.planner = "llm",
                  !.fired = @ \o fire(callbacks.on_plan_created, "on_plan_created", p)]
            /\ plan' = p
            /\ IF CallbackFaults(callbacks.on_plan_created)
               THEN Raise(Exception("CallbackError", "on_plan_created"))
               ELSE pc' = "executing" /\ UNCHANGED raised
       \/ LET fallback == create_fallback_plan(task)
          IN /\ hist' = [hist EXCEPT
                   !.planner = "fallback",
                   !.fired = @ \o (IF fallback.raised # << >> THEN << >>
                                   ELSE fire(callbacks.on_plan_created, "on_plan_created",
                                             fallback.steps))]
             /\ IF fallback.raised # << >>
                THEN Raise(fallback.raised[1]) /\ UNCHANGED plan
                ELSE /\ plan' = fallback.steps
                     /\ IF CallbackFaults(callbacks.on_plan_created)
                        THEN Raise(Exception("CallbackError", "on_plan_created"))
                        ELSE pc' = "executing" /\ UNCHANGED raised
    /\ UNCHANGED <<env_vars, http, attempts_made, verify_log, task, loop_vars,
                   call_vars, execution_result, verification, rec_vars, response,
                   retry_vars, invoked, call_log>>

\* ---------------------------------------------------------- VerifierAgent
Score(n, d) == [num |-> n, den |-> d]
ScoreLT(a, b) == a.num * b.den < b.num * a.den
ScoreEQ(a, b) == a.num * b.den = b.num * a.den

\* "Step {n} failed: {error}", kept as its two variable parts
Issue(r) == [step_number |-> r.step_number, error |-> r.error_message]

RECURSIVE IssuesOf(_)
IssuesOf(results) ==
    IF results = << >> THEN << >>
    ELSE IF Head(results).status = FAILED
         THEN << Issue(Head(results)) >> \o IssuesOf(Tail(results))
         ELSE IssuesOf(Tail(results))

\* Mutant: a tool's first payload is kept.
store_payload_first(data, tool, payload) ==
    IF tool \in DOMAIN data THEN data
    ELSE [t \in DOMAIN data \cup {tool} |-> IF t = tool THEN payload ELSE data[t]]

\* _build_final_output, line 140: output["data"][tool] = data
store_payload(data, tool, payload) ==
    [t \in DOMAIN data \cup {tool} |-> IF t = tool THEN payload ELSE data[t]]

\* _build_final_output, lines 133-140: the loop over the step results
RECURSIVE merge_payloads(_, _)
merge_payloads(results, data) ==
    IF results = << >> THEN data
    ELSE LET r == Head(results)
         IN IF r.status # COMPLETED
            THEN merge_payloads(Tail(results), data)
            ELSE IF r.tool_result = << >> \/ ~Truthy(r.tool_result[1].data)
            THEN merge_payloads(Tail(results), data)
            ELSE merge_payloads(Tail(results),
                                store_payload(data, r.tool_result[1].tool,
                                              r.tool_result[1].data))

\* VerifierAgent._build_final_output: data maps a tool to a payload, summary
\* has one part per tool found in data
build_final_output(er) ==
    LET data == merge_payloads(er.step_results, EmptyDict)
        parts == (IF "github" \in DOMAIN data THEN << "github" >> ELSE << >>)
                 \o (IF "weather" \in DOMAIN data THEN << "weather" >> ELSE << >>)
    IN [data |-> data,
        summary |-> IF parts # << >> THEN parts ELSE << "Task completed" >>]

\* One line of the report: a fixed prefix and the text put after it
Line(prefix, text) == [prefix |-> prefix, text |-> text]

\* "=" * 50
Banner == Line("", "==================================================")

\* "-" * 30
Underline == Line("", "------------------------------")

\* len(github_data.get("repositories", [])) for the payloads of this model
repositories(payload) ==
    CASE payload = "6 repositories" -> 6
      [] payload = "no repositories" -> 0
      [] OTHER -> 1

\* Mutant: every repository is listed.
listed_all(n) == n

\* _format_response, line 170: repositories[:5]
listed(n) == IF n < 5 THEN n ELSE 5

\* _format_response, lines 171-177: the four lines of each listed repository
RECURSIVE repo_lines(_)
repo_lines(n) ==
    IF n = 0 THEN << >>
    ELSE << Line("  ", "full_name"), Line("    Stars: ", "stars"),
            Line("    ", "description"), Line("", "") >> \o repo_lines(n - 1)

\* _format_response, lines 193-194: one line per issue
RECURSIVE issue_lines(_)
issue_lines(issues) ==
    IF issues = << >> THEN << >>
    ELSE << Line("  - ", Head(issues)) >> \o issue_lines(Tail(issues))

\* _format_response, lines 166-177
github_block(output) ==
    IF "github" \in DOMAIN output.data
    THEN << Line("", "GITHUB REPOSITORIES:"), Underline >>
         \o repo_lines(listed(repositories(output.data["github"])))
    ELSE << >>

\* _format_response, lines 179-189
weather_block(output) ==
    IF "weather" \in DOMAIN output.data
    THEN << Line("", "WEATHER:"), Underline,
            Line("  Location: ", "city, country"),
            Line("  Temperature: ", "temperature"),
            Line("  Feels Like: ", "feels_like_celsius"),
            Line("  Humidity: ", "humidity"),
            Line("  Conditions: ", "description"),
            Line("  Wind Speed: ", "wind_speed_mps"), Line("", "") >>
    ELSE << >>

\* _format_response, lines 191-195
issues_block(issues) ==
    IF issues # << >>
    THEN << Line("", "ISSUES:"), Underline >> \o issue_lines(issues)
         \o << Line("", "") >>
    ELSE << >>

\* The headings of the blocks of a report, in the order of its lines
RECURSIVE headings(_)
headings(lines) ==
    IF lines = << >> THEN << >>
    ELSE LET l == Head(lines)
         IN IF /\ l.prefix = ""
               /\ l.text \in {"GITHUB REPOSITORIES:", "WEATHER:", "ISSUES:"}
            THEN << l.text >> \o headings(Tail(lines))
            ELSE headings(Tail(lines))

\* Mutant: the weather block comes first.
format_response_weather_first(output, issues) ==
    LET lines == << Banner, Line("", "RESULTS"), Banner, Line("", "") >>
                 \o weather_block(output) \o github_block(output)
                 \o issues_block(issues) \o << Banner >>
    IN [lines |-> lines, blocks |-> headings(lines), issues |-> issues]

\* VerifierAgent._format_response: the lines of the report, the headings of
\* its blocks and the issues it was given
format_response(output, issues) ==
    LET lines == << Banner, Line("", "RESULTS"), Banner, Line("", "") >>
                 \o github_block(output) \o weather_block(output)
                 \o issues_block(issues) \o << Banner >>
    IN [lines |-> lines, blocks |-> headings(lines), issues |-> issues]

\* Mutant: half of the steps is enough.
is_valid_score_inclusive(completeness) == ~ScoreLT(completeness, Score(1, 2))

\* _create_fallback_verification, line 121: completeness > 0.5
is_valid_score(completeness) == ScoreLT(Score(1, 2), completeness)

\* Mutant: a run of no steps is complete.
completeness_vacuous(successful, total_steps) ==
    IF total_steps > 0 THEN Score(successful, total_steps) ELSE Score(1, 1)

\* _create_fallback_verification, line 111:
\* success_count / total_steps if total_steps > 0 else 0.0
completeness_of(successful, total_steps) ==
    IF total_steps > 0 THEN Score(successful, total_steps) ELSE Score(0, 1)

\* VerifierAgent._create_fallback_verification
create_fallback_verification(er) ==
    LET total_steps == Len(er.step_results)
        completeness == completeness_of(success_count(er.step_results), total_steps)
        issues == IssuesOf(er.step_results)
        final_output == build_final_output(er)
    IN [is_valid |-> is_valid_score(completeness),
        completeness_score |-> completeness,
        issues |-> issues,
        suggestions |-> << >>,
        final_output |-> final_output,
        formatted_response |-> format_response(final_output, issues)]

\* The VerificationResults the text-generation service answers with in this model.
LLMVerifications ==
    [is_valid : BOOLEAN,
     completeness_score : {Score(1, 2), Score(1, 1)},
     issues : { << >> }, suggestions : { << >> },
     final_output : { [data |-> EmptyDict, summary |-> << "generated" >>] },
     formatted_response : { [lines |-> << Line("", "generated") >>,
                             blocks |-> << "generated" >>, issues |-> << >>] }]

\* ---------------------------------------------------- LLMClient.generate
\* stop_after_attempt(3) of the retry decorator of LLMClient.generate
generate_attempts == 3

\* What the service does on one request of generate: its content parses
\* and validates ("ok"), is not JSON ("bad_json": json.JSONDecodeError), does
\* not fit the response model ("bad_schema": ValidationError), or the
\* request itself fails ("service_error").
Replies == {"ok", "bad_json", "bad_schema", "service_error"}

\* LLMClient.generate under its retry decorator: a JSONDecodeError is
\* retried until the generate_attempts-th request and then becomes a
\* RetryError; any other exception is raised at once.
generate(replies, value) ==
    LET F[i \in 1..generate_attempts] ==
            IF replies[i] = "ok"
            THEN [kind |-> "value", value |-> value, error |-> NONE, requests |-> i]
            ELSE IF replies[i] = "bad_json"
            THEN IF i < generate_attempts THEN F[i + 1]
                 ELSE [kind |-> "raise", value |-> << >>, error |-> "RetryError",
                       requests |-> i]
            ELSE [kind |-> "raise", value |-> << >>,
                  error |-> IF replies[i] = "bad_schema" THEN "ValidationError"
                            ELSE "APIError",
                  requests |-> i]
    IN F[1]

\* The replies one generate call consumes: requests that end in "bad_json"
\* until the last one, which ends the call.
GenerateRuns ==
    { r \in SeqsUpTo(Replies, generate_attempts) :
        /\ r # << >>
        /\ \A i \in 1..(Len(r) - 1) : r[i] = "bad_json"
        /\ r[Len(r)] = "bad_json" => Len(r) = generate_attempts }

\* What the service does during one generate call: the replies to its
\* requests and, when the last reply is "ok", the value it parses to.
GenerateBehaviours(Values, Runs) ==
    { [replies |-> r, value |-> << v >>] : r \in { q \in Runs : q[Len(q)] = "ok" },
                                          v \in Values }
    \cup { [replies |-> r, value |-> << >>] : r \in { q \in Runs : q[Len(q)] # "ok" } }

\* The generate calls of the pipeline specifications: one request each.
OneRequest == { r \in GenerateRuns : Len(r) = 1 }

\* Mutant: only the fault of malformed output is caught.
verifier_run_decode_only(er, b) ==
    LET g == generate(b.replies, b.value)
    IN IF g.kind = "value"
       THEN [path |-> "llm", result |-> g.value, raised |-> << >>,
             generate_calls |-> 1, requests |-> g.requests, fault |-> NONE]
       ELSE IF g.error = "RetryError"
       THEN [path |-> "fallback", result |-> << create_fallback_verification(er) >>,
             raised |-> << >>,
             generate_calls |-> 1, requests |-> g.requests, fault |-> g.error]
       ELSE [path |-> "fallback", result |-> << >>,
             raised |-> << Exception(g.error, "verifier") >>,
             generate_calls |-> 1, requests |-> g.requests, fault |-> g.error]

\* VerifierAgent.run, lines 50-66: one call of generate; its value is
\* returned, any Exception it raises is answered by the fallback verification
verifier_run(er, b) ==
    LET g == generate(b.replies, b.value)
    IN IF g.kind = "value"
       THEN [path |-> "llm", result |-> g.value, raised |-> << >>,
             generate_calls |-> 1, requests |-> g.requests, fault |-> NONE]
       ELSE [path |-> "fallback", result |-> << create_fallback_verification(er) >>,
             raised |-> << >>,
             generate_calls |-> 1, requests |-> g.requests, fault |-> g.error]

\* Mutant: the verifier drops the FAILED results it has reported.
run_result_after_verify_reported(er) ==
    [er EXCEPT !.step_results = SelectSeq(@, LAMBDA r : r.status # FAILED)]

\* VerifierAgent.run reads execution_result and assigns to none of its
\* fields (verifier.py 51-52, 101-118, 133-141): the caller's object is the
\* same after the call.
run_result_after_verify(er) == er

\* VerifierAgent.run, called by AgentOrchestrator.run (line 75), by
\* _retry_failed_steps (line 139), or by a driver of the verifier alone
VerifierRun(Behaviours) ==
    /\ pc \in {"verifying", "reverifying"}
    /\ \E b \in Behaviours :
         LET v == verifier_run(execution_result[1], b)
         IN /\ execution_result' = << run_result_after_verify(execution_result[1]) >>
            /\ verify_log' =
                  IF entry = "verifier"
                  THEN Append(verify_log,
                              [input |-> execution_result[1], path |-> v.path,
                               fault |-> v.fault, generate_calls |-> v.generate_calls,
                               requests |-> v.requests, result |-> v.result])
                  ELSE verify_log
            /\ IF v.raised # << >>
               THEN /\ Raise(v.raised[1])
                    /\ UNCHANGED <<verification, hist>>
               ELSE /\ verification' = v.result
                    /\ hist' = [hist EXCEPT
                          !.verifier = v.path,
                          !.verified_on = << execution_result[1] >>,
                          !.n_verify = @ + 1]
                    /\ pc' = IF entry = "verifier"
                             THEN IF verify_log = << >> THEN "verifying" ELSE "done"
                             ELSE IF pc = "verifying" THEN "verified" ELSE "finish"
                    /\ UNCHANGED raised
    /\ UNCHANGED <<env_vars, http, runs, attempts_made, task, plan, loop_vars,
                   call_vars, rec_vars, response, retry_vars, invoked, call_log>>

\* ------------------------------------------------------ AgentOrchestrator
\* Mutant: recovery is decided on the run result alone.
needs_recovery_unsuccessful(er, v) == ~er.success

\* AgentOrchestrator.run, line 78
needs_recovery(er, v) ==
    ~er.success /\ ScoreLT(v.completeness_score, Score(1, 1))

\* Mutant: every step of the plan is re-executed.
failed_positions_all(steps, results) ==
    [i \in 1..(IF Len(steps) < Len(results) THEN Len(steps) ELSE Len(results)) |-> i]

\* Mutant: no result is taken for failed.
failed_positions_none(steps, results) == << >>

\* Mutant: the failed steps are gone through twice.
failed_positions_twice(steps, results) ==
    LET n == IF Len(steps) < Len(results) THEN Len(steps) ELSE Len(results)
        F[i \in 0..n] ==
            IF i = 0 THEN << >>
            ELSE IF results[i].status = FAILED THEN Append(F[i - 1], i) ELSE F[i - 1]
    IN F[n] \o F[n]

\* _retry_failed_steps, lines 111-114: the failed steps, as positions of zip
failed_positions(steps, results) ==
    LET n == IF Len(steps) < Len(results) THEN Len(steps) ELSE Len(results)
        F[i \in 0..n] ==
            IF i = 0 THEN << >>
            ELSE IF results[i].status = FAILED THEN Append(F[i - 1], i) ELSE F[i - 1]
    IN F[n]

\* AgentOrchestrator.run, lines 77-82, and _retry_failed_steps, lines 111-119
RecoveryCheck ==
    /\ pc = "verified"
    /\ IF needs_recovery(execution_result[1], verification[1])
       THEN LET failed == failed_positions(plan, execution_result[1].step_results)
            IN /\ hist' = [hist EXCEPT !.recovering = TRUE,
                                       !.recov_results = [i \in 1..Len(plan) |-> << >>]]
               /\ IF failed = << >>
                  THEN /\ pc' = "finish"
                       /\ UNCHANGED rec_vars
                  ELSE /\ failed_steps' = failed
                       /\ fidx' = 1
                       /\ pc' = "recover_loop"
       ELSE /\ pc' = "finish"
            /\ UNCHANGED <<rec_vars, hist>>
    /\ UNCHANGED <<env_vars, obs_vars, task, plan, loop_vars, call_vars, execution_result,
                   verification, response, retry_vars, invoked, call_log>>

\* _retry_failed_steps, lines 122-123: the next failed step is re-executed
RecoverStep ==
    /\ pc = "recover_loop"
    /\ fidx <= Len(failed_steps)
    /\ ExecuteStepCall("recovery", failed_steps[fidx])
    /\ UNCHANGED <<env_vars, obs_vars, task, plan, verification, failed_steps, response, retry_vars>>

\* Mutant: the flags of the first pass are kept.
recalculate_not(er) == er

\* orchestrator.py 131-136
recalculate(er) ==
    LET count == success_count(er.step_results)
        all_success == count = Len(er.step_results)
    IN [er EXCEPT !.success = all_success,
                  !.partial_success = (count > 0 /\ ~all_success)]

\* _retry_failed_steps, lines 130-136: the loop is over
RecoverDone ==
    /\ pc = "recover_loop"
    /\ fidx > Len(failed_steps)
    /\ execution_result' = << recalculate(execution_result[1]) >>
    /\ pc' = "reverifying"
    /\ UNCHANGED <<env_vars, obs_vars, task, plan, loop_vars, call_vars, verification,
                   rec_vars, response, retry_vars, invoked, call_log, hist>>

\* Mutant: the response's success is the run result's alone.
AgentResponse_execution_only(p, er, v) ==
    [plan |-> p, execution |-> er, verification |-> v, success |-> er.success]

\* AgentOrchestrator.run, lines 89-96
AgentResponse(p, er, v) ==
    [plan |-> p, execution |-> er, verification |-> v,
     success |-> (v.is_valid /\ er.success)]

\* AgentOrchestrator.run, lines 84-99: on_verification_complete is called
\* with the verification, then the response is built and returned
Finish ==
    /\ pc = "finish"
    /\ hist' = [hist EXCEPT !.fired = @ \o fire(callbacks.on_verification_complete,
                                                "on_verification_complete", verification[1])]
    /\ IF CallbackFaults(callbacks.on_verification_complete)
       THEN /\ Raise(Exception("CallbackError", "on_verification_complete"))
            /\ UNCHANGED <<response, returned>>
       ELSE /\ response' = << AgentResponse(plan, execution_result[1], verification[1]) >>
            /\ UNCHANGED raised
            /\ IF entry = "run"
               THEN /\ returned' = response'
                    /\ pc' = "done"
               ELSE /\ pc' = "retry_check"
                    /\ UNCHANGED returned
    /\ UNCHANGED <<env_vars, http, runs, attempts_made, verify_log, task, plan,
                   loop_vars, call_vars, execution_result, verification, rec_vars,
                   attempt, best_response, invoked, call_log>>

\* Mutant: one more attempt than max_attempts is started.
attempts_left_inclusive(a, m) == a <= m

\* run_with_retry, line 169: for attempt in range(max_attempts)
attempts_left(a, m) == a < m

\* run_with_retry, line 169 and 184: the head of the for loop
RetryLoop ==
    /\ pc = "retry_loop"
    /\ IF attempts_left(attempt, max_attempts)
       THEN /\ pc' = "planning"
            /\ plan' = << >>
            /\ execution_result' = << >>
            /\ verification' = << >>
            /\ failed_steps' = << >>
            /\ fidx' = 0
            /\ response' = << >>
            /\ invoked' = << >>
            /\ call_log' = NoCall
            /\ hist' = NoHist
            /\ caller' = NONE
            /\ cur' = 0
            /\ UNCHANGED <<returned, retry_count, last_error>>
       ELSE /\ returned' = best_response
            /\ pc' = "done"
            /\ UNCHANGED <<plan, execution_result, verification, rec_vars, response,
                           invoked, call_log, hist, call_vars>>
    /\ UNCHANGED <<env_vars, obs_vars, task, loop_vars, attempt, best_response>>

\* Mutant: the latest response is kept.
keep_best_latest(best, resp) == << resp >>

\* Mutant: a response of the same score replaces the one kept.
keep_best_on_ties(best, resp) ==
    IF best = << >>
       \/ ~ScoreLT(resp.verification.completeness_score,
                   best[1].verification.completeness_score)
    THEN << resp >> ELSE best

\* run_with_retry, lines 177-179
keep_best(best, resp) ==
    IF best = << >>
       \/ ScoreLT(best[1].verification.completeness_score,
                  resp.verification.completeness_score)
    THEN << resp >> ELSE best

\* history: what run_with_retry sees of a response
Attempt(resp) ==
    [success |-> resp.success,
     completeness_score |-> resp.verification.completeness_score]

\* run_with_retry, lines 172-182: an attempt has returned its response
RetryCheck ==
    /\ pc = "retry_check"
    /\ attempts_made' = Append(attempts_made, Attempt(response[1]))
    /\ IF response[1].success
       THEN /\ returned' = response
            /\ pc' = "done"
            /\ UNCHANGED <<attempt, best_response>>
       ELSE /\ best_response' = keep_best(best_response, response[1])
            /\ attempt' = attempt + 1
            /\ pc' = "retry_loop"
            /\ UNCHANGED returned
    /\ UNCHANGED <<env_vars, raised, http, runs, verify_log, task, plan, loop_vars,
                   call_vars, execution_result, verification, rec_vars, response,
                   invoked, call_log, hist>>

\* ------------------------------------------------------ the whole pipeline
Init ==
    /\ entry = "run"
    /\ max_attempts = 0
    /\ task \in PipelineTasks
    /\ registry = StartupRegistry
    /\ plan = << >>
    /\ pc = "planning"
    /\ idx = 0
    /\ step_results = <<>>
    /\ completed_steps = EmptyDict
    /\ caller = NONE
    /\ cur = 0
    /\ retry_count = 0
    /\ last_error = NONE
    /\ execution_result = <<>>
    /\ verification = <<>>
    /\ failed_steps = <<>>
    /\ fidx = 0
    /\ response = <<>>
    /\ attempt = 0
    /\ best_response = <<>>
    /\ returned = <<>>
    /\ invoked = <<>>
    /\ call_log = NoCall
    /\ hist = NoHist
    /\ request = << >>
    /\ callbacks = NoCallbacks
    /\ InitObs

Next ==
    \/ PlannerRun(LLMPlans)
    \/ ExecutorRunStart
    \/ RunStep
    \/ ToolReturns(ExecuteOutcomes)
    \/ Backoff
    \/ ExecutorRunReturn
    \/ VerifierRun(GenerateBehaviours(LLMVerifications, OneRequest))
    \/ RecoveryCheck
    \/ RecoverStep
    \/ RecoverDone
    \/ Finish

Spec == Init /\ [][Next]_vars

\* ---------------------------------------------- ExecutorAgent.run on its own
\* ExecutorAgent.run(plan) for every plan, on the registry of a constructed
\* executor (both tools registered: the two tools then behave alike, and the
\* plans of one tool stand for all) and on a registry that lacks the
\* repository tool (a plan then mixes registered and unregistered tools).
InitExec ==
    /\ entry = "executor"
    /\ max_attempts = 0
    /\ task = NONE
    /\ \/ /\ registry = StartupRegistry
          /\ plan \in Plans({"github"})
       \/ /\ registry = register(clear(StartupRegistry), Tool("weather", 1))
          /\ plan \in Plans(ToolTypes)
    /\ pc = "executing"
    /\ idx = 0
    /\ step_results = <<>>
    /\ completed_steps = EmptyDict
    /\ caller = NONE
    /\ cur = 0
    /\ retry_count = 0
    /\ last_error = NONE
    /\ execution_result = <<>>
    /\ verification = <<>>
    /\ failed_steps = <<>>
    /\ fidx = 0
    /\ response = <<>>
    /\ attempt = 0
    /\ best_response = <<>>
    /\ returned = <<>>
    /\ invoked = <<>>
    /\ call_log = NoCall
    /\ hist = NoHist
    /\ request = << >>
    /\ callbacks = NoCallbacks
    /\ InitObs

NextExec ==
    \/ ExecutorRunStart
    \/ RunStep
    \/ ToolReturns(ExecuteOutcomes)
    \/ Backoff
    \/ ExecutorRunReturn

SpecExec == InitExec /\ [][NextExec]_vars

\* ------------------------------------------- run and run_with_retry, small
\* The collaborators of the specification of both entry points: generated
\* plans of at most one step, a tool that succeeds or reports a rate limit,
\* and the generated verifications of the pipeline specification.
RetryPlans == { p \in LLMPlans : Len(p) <= 1 }

RetryOutcomes ==
    { out \in ExecuteOutcomes : out.success \/ (out.kind = "return" /\ out.error # NONE) }

InitRetry ==
    /\ entry \in {"run", "run_with_retry"}
    /\ max_attempts \in IF entry = "run" THEN {0} ELSE 0..MaxAttempts
    /\ task \in PipelineTasks
    /\ registry = StartupRegistry
    /\ plan = << >>
    /\ pc = IF entry = "run" THEN "planning" ELSE "retry_loop"
    /\ idx = 0
    /\ step_results = <<>>
    /\ completed_steps = EmptyDict
    /\ caller = NONE
    /\ cur = 0
    /\ retry_count = 0
    /\ last_error = NONE
    /\ execution_result = <<>>
    /\ verification = <<>>
    /\ failed_steps = <<>>
    /\ fidx = 0
    /\ response = <<>>
    /\ attempt = 0
    /\ best_response = <<>>
    /\ returned = <<>>
    /\ invoked = <<>>
    /\ call_log = NoCall
    /\ hist = NoHist
    /\ request = << >>
    /\ callbacks = NoCallbacks
    /\ InitObs

NextRetry ==
    \/ RetryLoop
    \/ PlannerRun(RetryPlans)
    \/ ExecutorRunStart
    \/ RunStep
    \/ ToolReturns(RetryOutcomes)
    \/ Backoff
    \/ ExecutorRunReturn
    \/ VerifierRun(GenerateBehaviours(LLMVerifications, OneRequest))
    \/ RecoveryCheck
    \/ RecoverStep
    \/ RecoverDone
    \/ Finish
    \/ RetryCheck

SpecRetry == InitRetry /\ [][NextRetry]_vars

\* ------------------------------------------ VerifierAgent.run on its own
\* The step results ExecutorAgent.run and _execute_step build for the step
\* numbered n: COMPLETED with the data of either tool, FAILED after
\* max_retries failed invocations, FAILED for unmet dependencies.
StepResultsOf(n) ==
    { completed_result(n, create_result(t, TRUE, "payload", NONE), 0) : t \in ToolTypes }
    \cup { exhausted_result(n, max_retries, "Rate limit"),
           StepResultError(n, FAILED, "Dependencies not met") }

\* The run results of up to MaxResults steps numbered 1, 2, ...
RunResultsUpTo(n) ==
    LET R[k \in 0..n] ==
            IF k = 0 THEN { << >> }
            ELSE R[k - 1] \cup { Append(rs, r) : rs \in { q \in R[k - 1] : Len(q) = k - 1 },
                                                 r \in StepResultsOf(k) }
    IN { MakeExecutionResult(rs) : rs \in R[n] }

\* The VerificationResult the service answers with when the verifier is
\* driven alone
VerifyValues ==
    { v \in LLMVerifications : v.is_valid /\ v.completeness_score = Score(1, 1) }

\* A driver calls VerifierAgent.run on a run result, and then once more on
\* the same object.
InitVerify ==
    /\ entry = "verifier"
    /\ max_attempts = 0
    /\ task = NONE
    /\ registry = StartupRegistry
    /\ plan = << >>
    /\ execution_result \in { << er >> : er \in RunResultsUpTo(MaxResults) }
    /\ pc = "verifying"
    /\ idx = 0
    /\ step_results = <<>>
    /\ completed_steps = EmptyDict
    /\ caller = NONE
    /\ cur = 0
    /\ retry_count = 0
    /\ last_error = NONE
    /\ verification = <<>>
    /\ failed_steps = <<>>
    /\ fidx = 0
    /\ response = <<>>
    /\ attempt = 0
    /\ best_response = <<>>
    /\ returned = <<>>
    /\ invoked = <<>>
    /\ call_log = NoCall
    /\ hist = NoHist
    /\ request = << >>
    /\ callbacks = NoCallbacks
    /\ InitObs

NextVerify == VerifierRun(GenerateBehaviours(VerifyValues, GenerateRuns))

SpecVerify == InitVerify /\ [][NextVerify]_vars

\* ------------------------------- the fallback report of VerifierAgent.run
\* The longest run result the verifier is given in SpecOutput
MaxOutputs == 3

\* The payloads a tool's ToolResult carries here; "" is an empty payload
Payloads == {"payload", "6 repositories", "no repositories", ""}

\* The step results for the step numbered n: COMPLETED with a payload of
\* either tool, FAILED after max_retries failed invocations, and a FAILED
\* result that still carries the ToolResult of its last invocation
OutputResultsOf(n) ==
    { completed_result(n, create_result(t, TRUE, d, NONE), 0) :
        t \in ToolTypes, d \in Payloads }
    \cup { exhausted_result(n, max_retries, "Rate limit"),
           [exhausted_result(n, max_retries, "Rate limit") EXCEPT
              !.tool_result = << create_result("github", FALSE, "stale payload",
                                               "Rate limit") >>] }

\* The run results of up to n steps numbered 1, 2, ...
OutputRunsUpTo(n) ==
    LET R[k \in 0..n] ==
            IF k = 0 THEN { << >> }
            ELSE R[k - 1] \cup { Append(rs, r) : rs \in { q \in R[k - 1] : Len(q) = k - 1 },
                                                 r \in OutputResultsOf(k) }
    IN { MakeExecutionResult(rs) : rs \in R[n] }

\* A driver calls VerifierAgent.run on a run result while the
\* text-generation service is down or answers.
InitOutput ==
    /\ entry = "verifier"
    /\ max_attempts = 0
    /\ task = NONE
    /\ registry = StartupRegistry
    /\ plan = << >>
    /\ execution_result \in { << er >> : er \in OutputRunsUpTo(MaxOutputs) }
    /\ pc = "verifying"
    /\ idx = 0
    /\ step_results = <<>>
    /\ completed_steps = EmptyDict
    /\ caller = NONE
    /\ cur = 0
    /\ retry_count = 0
    /\ last_error = NONE
    /\ verification = <<>>
    /\ failed_steps = <<>>
    /\ fidx = 0
    /\ response = <<>>
    /\ attempt = 0
    /\ best_response = <<>>
    /\ returned = <<>>
    /\ invoked = <<>>
    /\ call_log = NoCall
    /\ hist = NoHist
    /\ request = << >>
    /\ callbacks = NoCallbacks
    /\ InitObs

SpecOutput == InitOutput /\ [][NextVerify]_vars

\* ------------------------------------------- the pipeline in other settings
\* AgentOrchestrator.run(task) is called for a task of ts, with the callbacks
\* of cbs set and the registry holding the tools of reg.
InitPipeline(ts, cbs, reg) ==
    /\ entry = "run"
    /\ max_attempts = 0
    /\ task \in ts
    /\ registry = reg
    /\ plan = << >>
    /\ pc = "planning"
    /\ idx = 0
    /\ step_results = <<>>
    /\ completed_steps = EmptyDict
    /\ caller = NONE
    /\ cur = 0
    /\ retry_count = 0
    /\ last_error = NONE
    /\ execution_result = <<>>
    /\ verification = <<>>
    /\ failed_steps = <<>>
    /\ fidx = 0
    /\ response = <<>>
    /\ attempt = 0
    /\ best_response = <<>>
    /\ returned = <<>>
    /\ invoked = <<>>
    /\ call_log = NoCall
    /\ hist = NoHist
    /\ request = << >>
    /\ callbacks \in cbs
    /\ InitObs

\* The pipeline from planning on, with the plans, tool outcomes and generate
\* behaviours of the verifier given
NextPipeline(Generated, Outcomes, Behaviours) ==
    \/ PlannerRun(Generated)
    \/ ExecutorRunStart
    \/ RunStep
    \/ ToolReturns(Outcomes)
    \/ Backoff
    \/ ExecutorRunReturn
    \/ VerifierRun(Behaviours)
    \/ RecoveryCheck
    \/ RecoverStep
    \/ RecoverDone
    \/ Finish

\* Every task text, with the planner's generate call answered by a plan of
\* one step or faulting, and the verifier's generate call always faulting
InitPlan == InitPipeline(Tasks, { NoCallbacks }, StartupRegistry)

NextPlan ==
    NextPipeline({ << [step_number |-> 1, tool |-> "github", depends_on |-> {}] >> },
                 RetryOutcomes,
                 GenerateBehaviours(LLMVerifications, { << "service_error" >> }))

SpecPlan == InitPlan /\ [][NextPlan]_vars

\* set_callbacks: each of on_plan_created and on_verification_complete is
\* left unset, or set to a callable that returns, or to one that raises
CallbackSettings ==
    [on_plan_created : {"unset", "returns", "faults"},
     on_step_started : {"unset", "returns"},
     on_step_completed : {"unset", "returns"},
     on_verification_complete : {"unset", "returns", "faults"}]

InitCallbacks == InitPipeline(PipelineTasks, CallbackSettings, StartupRegistry)

NextCallbacks ==
    NextPipeline(RetryPlans, RetryOutcomes,
                 GenerateBehaviours(LLMVerifications, OneRequest))

SpecCallbacks == InitCallbacks /\ [][NextCallbacks]_vars

\* The registry has lost the repository tool (ToolRegistry.clear and
\* register are open to every caller); the generated plans number their
\* steps 1, 2, ... and depend on earlier steps only.
OrderedPlans ==
    { p \in Plans(ToolTypes) :
        \A i \in DOMAIN p : p[i].step_number = i /\ p[i].depends_on \subseteq 1..(i - 1) }

InitUnregistered ==
    InitPipeline(PipelineTasks, { NoCallbacks },
                 register(clear(StartupRegistry), Tool("weather", 1)))

NextUnregistered ==
    NextPipeline(OrderedPlans, RetryOutcomes,
                 GenerateBehaviours(LLMVerifications, OneRequest))

SpecUnregistered == InitUnregistered /\ [][NextUnregistered]_vars

\* ------------------------------------------------- execute_task (main.py)
\* run_with_retry: the default of max_attempts
default_max_attempts == 2

\* Mutant: the retrying entry point is called whatever the request says.
select_call_always_retry(req) ==
    [entry |-> "run_with_retry", max_attempts |-> default_max_attempts]

\* execute_task, lines 117-120: the method of the orchestrator called
select_call(req) ==
    IF req.retry_on_failure
    THEN [entry |-> "run_with_retry", max_attempts |-> default_max_attempts]
    ELSE [entry |-> "run", max_attempts |-> 0]

\* A TaskRequest, and whether the global orchestrator is set when it arrives
TaskRequests == [retry_on_failure : BOOLEAN, orchestrator_set : BOOLEAN]

\* HTTPException(status_code, detail)
HTTPException(status, detail) == [status |-> status, detail |-> detail]

\* execute_task, lines 122-136
TaskResponse(resp) ==
    [status |-> 200,
     success |-> resp.success,
     summary |-> resp.verification.final_output.summary,
     formatted_response |-> resp.verification.formatted_response,
     plan_steps |-> Len(resp.plan),
     completed_steps |-> success_count(resp.execution.step_results),
     completeness_score |-> resp.verification.completeness_score]

\* execute_task, lines 111-120: the request arrives
ExecuteTask ==
    /\ pc = "request"
    /\ IF ~request[1].orchestrator_set
       THEN /\ http' = << HTTPException(503, "Service not initialized") >>
            /\ pc' = "responded"
            /\ UNCHANGED <<entry, max_attempts>>
       ELSE /\ entry' = select_call(request[1]).entry
            /\ max_attempts' = select_call(request[1]).max_attempts
            /\ pc' = IF select_call(request[1]).entry = "run" THEN "planning"
                     ELSE "retry_loop"
            /\ UNCHANGED http
    /\ UNCHANGED <<registry, request, callbacks, reg_vars, suspended, raised, runs, attempts_made,
                   verify_log, task, plan, loop_vars, call_vars, execution_result,
                   verification, rec_vars, response, retry_vars, invoked, call_log,
                   hist>>

\* execute_task, lines 122-140: the orchestrator has returned or raised
ExecuteTaskReturn ==
    /\ request # << >>
    /\ pc \in {"done", "raised"}
    /\ http' = IF pc = "raised" THEN << HTTPException(500, raised[1].type) >>
               ELSE IF returned = << >> THEN << HTTPException(500, "AttributeError") >>
               ELSE << TaskResponse(returned[1]) >>
    /\ pc' = "responded"
    /\ UNCHANGED <<env_vars, raised, runs, attempts_made, verify_log, task, plan,
                   loop_vars, call_vars, execution_result, verification, rec_vars,
                   response, retry_vars, invoked, call_log, hist>>

\* The task texts of the requests: those of the pipeline specifications and
\* one like "weather in ?"
RequestTasks ==
    PipelineTasks
    \cup { [github_kw |-> FALSE, weather_kw |-> TRUE, common_city |-> FALSE,
            after_prep |-> << "empty" >>] }

InitTask ==
    /\ entry = "execute_task"
    /\ max_attempts = 0
    /\ task \in RequestTasks
    /\ registry = StartupRegistry
    /\ plan = << >>
    /\ pc = "request"
    /\ idx = 0
    /\ step_results = <<>>
    /\ completed_steps = EmptyDict
    /\ caller = NONE
    /\ cur = 0
    /\ retry_count = 0
    /\ last_error = NONE
    /\ execution_result = <<>>
    /\ verification = <<>>
    /\ failed_steps = <<>>
    /\ fidx = 0
    /\ response = <<>>
    /\ attempt = 0
    /\ best_response = <<>>
    /\ returned = <<>>
    /\ invoked = <<>>
    /\ call_log = NoCall
    /\ hist = NoHist
    /\ request \in { << r >> : r \in TaskRequests }
    /\ callbacks = NoCallbacks
    /\ InitObs

NextTask ==
    \/ ExecuteTask
    \/ RetryLoop
    \/ NextPipeline(RetryPlans, RetryOutcomes,
                    GenerateBehaviours(LLMVerifications, OneRequest))
    \/ RetryCheck
    \/ ExecuteTaskReturn

SpecTask == InitTask /\ [][NextTask]_vars

\* ------------------------------------------------ ToolRegistry on its own
\* Most register / clear calls of a registry driver, and the constructions
\* whose tool objects it registers (1..MaxTools).
MaxCalls == 3
MaxTools == 2

\* The pipeline variables of a process in which no pipeline method is called.
NoPipeline ==
    /\ max_attempts = 0
    /\ task = NONE
    /\ plan = <<>>
    /\ idx = 0
    /\ step_results = <<>>
    /\ completed_steps = EmptyDict
    /\ caller = NONE
    /\ cur = 0
    /\ retry_count = 0
    /\ last_error = NONE
    /\ execution_result = <<>>
    /\ verification = <<>>
    /\ failed_steps = <<>>
    /\ fidx = 0
    /\ response = <<>>
    /\ attempt = 0
    /\ best_response = <<>>
    /\ returned = <<>>
    /\ invoked = <<>>
    /\ call_log = NoCall
    /\ hist = NoHist
    /\ request = << >>
    /\ callbacks = NoCallbacks

pipeline_vars == <<max_attempts, task, plan, loop_vars, call_vars, execution_result,
                   verification, rec_vars, response, retry_vars, invoked, call_log,
                   hist, request, callbacks>>

\* ToolRegistry.register(tool)
Register(tool) ==
    /\ entry = "registry"
    /\ Len(reg_log) < MaxCalls
    /\ registry' = register(registry, tool)
    /\ reg_log' = Append(reg_log, [op |-> "register", tool |-> tool])
    /\ UNCHANGED <<entry, pc, held, other, obs_vars, pipeline_vars, suspended>>

\* ToolRegistry.clear()
Clear ==
    /\ entry = "registry"
    /\ Len(reg_log) < MaxCalls
    /\ registry' = clear(registry)
    /\ reg_log' = Append(reg_log, [op |-> "clear", tool |-> NONE])
    /\ UNCHANGED <<entry, pc, held, other, obs_vars, pipeline_vars, suspended>>

\* ToolRegistry.get(tool_type): the caller holds what it returned
Get(tool_type) ==
    /\ entry = "registry"
    /\ held' = [op |-> "get", arg |-> tool_type, ret |-> get(registry, tool_type),
                at |-> Len(reg_log)]
    /\ UNCHANGED <<entry, pc, registry, reg_log, other, obs_vars, pipeline_vars, suspended>>

\* ToolRegistry.get_all(): the caller holds the mapping it returned
GetAll ==
    /\ entry = "registry"
    /\ held' = [op |-> "get_all", arg |-> NONE, ret |-> <<get_all(registry)>>,
                at |-> Len(reg_log)]
    /\ UNCHANGED <<entry, pc, registry, reg_log, other, obs_vars, pipeline_vars, suspended>>

\* Mutant: get_all hands out cls._tools itself, so the caller's change is
\* the registry's.
tools_after_caller_change_shared(reg, changed) == changed

\* ToolRegistry._tools after the caller of get_all changed the mapping it
\* was given: get_all returned a copy, so nothing changes
tools_after_caller_change(reg, changed) == reg

\* The caller of get_all removes tool_type from the mapping it was given.
ChangeReturned(tool_type) ==
    /\ entry = "registry"
    /\ held.op = "get_all"
    /\ tool_type \in DOMAIN held.ret[1]
    /\ LET changed == [k \in DOMAIN held.ret[1] \ {tool_type} |-> held.ret[1][k]]
       IN /\ held' = [held EXCEPT !.op = "changed", !.ret = <<changed>>]
          /\ registry' = tools_after_caller_change(registry, changed)
    /\ UNCHANGED <<entry, pc, reg_log, other, obs_vars, pipeline_vars, suspended>>

InitRegistry ==
    /\ entry = "registry"
    /\ pc = "idle"
    /\ registry = EmptyDict
    /\ NoPipeline
    /\ InitObs

NextRegistry ==
    \/ \E t \in ToolTypes, m \in 1..MaxTools : Register(Tool(t, m))
    \/ Clear
    \/ \E t \in ToolTypes : Get(t)
    \/ GetAll
    \/ \E t \in ToolTypes : ChangeReturned(t)

SpecRegistry == InitRegistry /\ [][NextRegistry]_vars


\* ------------------------------- a second orchestrator in the same process
\* app.py get_orchestrator in another session's thread: AgentOrchestrator()
\* constructs an ExecutorAgent, whose _register_tools begins with
\* ToolRegistry.clear() on the dict every ExecutorAgent shares.
OtherClear ==
    /\ other = "absent"
    /\ registry' = clear(registry)
    /\ other' = "cleared"
    /\ UNCHANGED <<entry, pc, reg_log, held, obs_vars, pipeline_vars, suspended>>

\* _register_tools of that thread goes on: ToolRegistry.register(GitHubTool()),
\* then ToolRegistry.register(WeatherTool())
OtherRegister ==
    /\ other \in {"cleared", "github_registered"}
    /\ registry' = register(registry,
                            Tool(IF other = "cleared" THEN "github" ELSE "weather", 2))
    /\ other' = IF other = "cleared" THEN "github_registered" ELSE "constructed"
    /\ UNCHANGED <<entry, pc, reg_log, held, obs_vars, pipeline_vars, suspended>>

InitShared == InitPipeline(PipelineTasks, { NoCallbacks }, StartupRegistry)

NextShared ==
    \/ NextPipeline(RetryPlans, RetryOutcomes,
                    GenerateBehaviours(LLMVerifications, OneRequest))
    \/ OtherClear
    \/ OtherRegister

SpecShared == InitShared /\ [][NextShared]_vars

\* ------------------------------------------------ the entry points, fair
\* The coroutine that runs an entry point is the only task of its event
\* loop: whenever it can take its next step (a tool invocation or a
\* generate call has returned or faulted, a sleep is over) it takes it.
SpecRetryFair == SpecRetry /\ WF_vars(NextRetry)

\* ------------------------------------------------- GitHubTool (github_tool.py)
\* _make_request: stop_after_attempt(3)
request_attempts == 3

\* What the search API answers a request with: the status of its response.
Statuses == {"200", "403"}

\* The answers to the requests one execute call can make, in order.
Answers == [1..request_attempts -> Statuses]

\* GitHubTool._make_request under tenacity's retry (any exception is retried,
\* reraise is off): the JSON of the first response that raise_for_status
\* accepts, or RetryError once the third request has raised HTTPStatusError
make_request(answers) ==
    LET F[k \in 1..request_attempts] ==
            IF answers[k] = "200" THEN [kind |-> "return", type |-> NONE, status |-> "200"]
            ELSE IF k = request_attempts
            THEN [kind |-> "raise", type |-> "RetryError", status |-> answers[k]]
            ELSE F[k + 1]
    IN F[1]

\* GitHubTool.execute, lines 102-108: the text for an HTTPStatusError
api_error(status) ==
    "GitHub API error: " \o status
        \o (IF status = "403" THEN " (Rate limit exceeded)"
            ELSE IF status = "422" THEN " (Invalid query)" ELSE "")

\* str() of tenacity's RetryError: "RetryError[<Future at 0x.. state=finished
\* raised HTTPStatusError>]"
retry_error_text == "RetryError[<Future state=finished raised HTTPStatusError>]"

\* GitHubTool.execute: what it hands to safe_execute, with the answers it got
github_execute(answers) ==
    LET r == make_request(answers)
    IN IF r.kind = "return"
       THEN [kind |-> "return", success |-> TRUE, data |-> "payload", error |-> NONE,
             answers |-> answers]
       ELSE IF r.type = "HTTPStatusError"
       THEN [kind |-> "return", success |-> FALSE, data |-> NONE,
             error |-> api_error(r.status), answers |-> answers]
       ELSE [kind |-> "return", success |-> FALSE, data |-> NONE,
             error |-> retry_error_text, answers |-> answers]

GitHubOutcomes == { github_execute(a) : a \in Answers }

\* ExecutorAgent.run on plans of repository searches, the registered
\* GitHubTool talking to an API that answers 200 or 403
InitGitHub ==
    /\ InitExec
    /\ registry = StartupRegistry

NextGitHub ==
    \/ ExecutorRunStart
    \/ RunStep
    \/ ToolReturns(GitHubOutcomes)
    \/ Backoff
    \/ ExecutorRunReturn

SpecGitHub == InitGitHub /\ [][NextGitHub]_vars

\* ------------------------------------- ExecutorAgent.run on longer plans
\* Longest plan of this specification.
MaxChain == 4

\* Plans of n repository searches, numbered 1..n in order, each depending on
\* any of the steps before it
RECURSIVE ChainPlansOfLen(_)
ChainPlansOfLen(n) ==
    IF n = 0 THEN { << >> }
    ELSE { Append(p, [step_number |-> n, tool |-> "github", depends_on |-> D]) :
             p \in ChainPlansOfLen(n - 1), D \in SUBSET (1..(n - 1)) }

ChainPlans == UNION { ChainPlansOfLen(n) : n \in 0..MaxChain }

InitChain ==
    /\ entry = "executor"
    /\ max_attempts = 0
    /\ task = NONE
    /\ registry = StartupRegistry
    /\ plan \in ChainPlans
    /\ pc = "executing"
    /\ idx = 0
    /\ step_results = <<>>
    /\ completed_steps = EmptyDict
    /\ caller = NONE
    /\ cur = 0
    /\ retry_count = 0
    /\ last_error = NONE
    /\ execution_result = <<>>
    /\ verification = <<>>
    /\ failed_steps = <<>>
    /\ fidx = 0
    /\ response = <<>>
    /\ attempt = 0
    /\ best_response = <<>>
    /\ returned = <<>>
    /\ invoked = <<>>
    /\ call_log = NoCall
    /\ hist = NoHist
    /\ request = << >>
    /\ callbacks = NoCallbacks
    /\ InitObs

NextChain ==
    \/ ExecutorRunStart
    \/ RunStep
    \/ ToolReturns(RetryOutcomes)
    \/ Backoff
    \/ ExecutorRunReturn

SpecChain == InitChain /\ [][NextChain]_vars

\* ------------- two AgentOrchestrator.run calls on one orchestrator and loop
\* The local variables of one AgentOrchestrator.run call and of the calls it
\* awaits (orchestrator.py 59-96, 110-141; executor.py 58-88, 117-155), with
\* the history kept of it
Frame ==
    [task |-> task, pc |-> pc, plan |-> plan, idx |-> idx,
     step_results |-> step_results, completed_steps |-> completed_steps,
     caller |-> caller, cur |-> cur, retry_count |-> retry_count,
     last_error |-> last_error, execution_result |-> execution_result,
     verification |-> verification, failed_steps |-> failed_steps, fidx |-> fidx,
     response |-> response, returned |-> returned, invoked |-> invoked,
     call_log |-> call_log, hist |-> hist, raised |-> raised]

\* The frame of a call that has not begun
NewFrame(t) ==
    [task |-> t, pc |-> "planning", plan |-> << >>, idx |-> 0,
     step_results |-> << >>, completed_steps |-> EmptyDict,
     caller |-> NONE, cur |-> 0, retry_count |-> 0,
     last_error |-> NONE, execution_result |-> << >>,
     verification |-> << >>, failed_steps |-> << >>, fidx |-> 0,
     response |-> << >>, returned |-> << >>, invoked |-> << >>,
     call_log |-> NoCall, hist |-> NoHist, raised |-> << >>]

\* Where a call gives the event loop to other tasks: in the awaited request
\* of a tool (tools/github_tool.py 39-40, tools/weather_tool.py 36-37) and in
\* asyncio.sleep (executor.py 143).  PlannerAgent.run and VerifierAgent.run
\* call LLMClient.generate, which is not a coroutine (client.py 34, 46): the
\* event loop runs nothing else until it returns.
suspends(at) == at \in {"invoke", "sleep"}

\* The call has returned or raised.
ended(at) == at \in {"done", "raised"}

\* Mutant: the run result is an attribute of the orchestrator.
resumed_shared(own, current) ==
    [own EXCEPT !.execution_result = current.execution_result]

\* orchestrator.py 64-83: plan, execution_result and verification are local
\* variables of the call, which finds them as it left them
resumed(own, current) == own

\* The event loop runs the other call while this one is suspended or over.
Switch ==
    /\ suspended # << >>
    /\ suspends(pc) \/ ended(pc)
    /\ ~ended(suspended[1].pc)
    /\ LET f == resumed(suspended[1], Frame)
       IN /\ suspended' = << Frame >>
          /\ task' = f.task
          /\ pc' = f.pc
          /\ plan' = f.plan
          /\ idx' = f.idx
          /\ step_results' = f.step_results
          /\ completed_steps' = f.completed_steps
          /\ caller' = f.caller
          /\ cur' = f.cur
          /\ retry_count' = f.retry_count
          /\ last_error' = f.last_error
          /\ execution_result' = f.execution_result
          /\ verification' = f.verification
          /\ failed_steps' = f.failed_steps
          /\ fidx' = f.fidx
          /\ response' = f.response
          /\ returned' = f.returned
          /\ invoked' = f.invoked
          /\ call_log' = f.call_log
          /\ hist' = f.hist
          /\ raised' = f.raised
    /\ UNCHANGED <<entry, max_attempts, registry, request, callbacks, reg_vars,
                   attempt, best_response, http, runs, attempts_made, verify_log>>

\* The plans of the two calls: steps numbered 1, 2, ... without dependencies
TwoPlans ==
    { p \in RetryPlans : \A i \in DOMAIN p : p[i].step_number = i /\ p[i].depends_on = {} }

\* Two calls of AgentOrchestrator.run for different tasks are on the event
\* loop; neither has begun.
InitTwo ==
    /\ entry = "run"
    /\ max_attempts = 0
    /\ task \in PipelineTasks
    /\ suspended \in { << NewFrame(t) >> : t \in PipelineTasks \ {task} }
    /\ registry = StartupRegistry
    /\ plan = << >>
    /\ pc = "planning"
    /\ idx = 0
    /\ step_results = <<>>
    /\ completed_steps = EmptyDict
    /\ caller = NONE
    /\ cur = 0
    /\ retry_count = 0
    /\ last_error = NONE
    /\ execution_result = <<>>
    /\ verification = <<>>
    /\ failed_steps = <<>>
    /\ fidx = 0
    /\ response = <<>>
    /\ attempt = 0
    /\ best_response = <<>>
    /\ returned = <<>>
    /\ invoked = <<>>
    /\ call_log = NoCall
    /\ hist = NoHist
    /\ request = << >>
    /\ callbacks = NoCallbacks
    /\ raised = << >>
    /\ http = << >>
    /\ runs = 0
    /\ attempts_made = << >>
    /\ verify_log = << >>
    /\ reg_log = << >>
    /\ held = NoQuery
    /\ other = "absent"

NextTwo ==
    \/ NextPipeline(TwoPlans, RetryOutcomes, GenerateBehaviours(VerifyValues, OneRequest))
    \/ Switch

SpecTwo == InitTwo /\ [][NextTwo]_vars

\* =================================================================== claims
\* The run result ExecutorAgent.run has returned (SpecExec), if any
RunReturned == entry = "executor" /\ pc = "done" /\ execution_result # << >>
RunResult == execution_result[1]

CountStatus(results, status) ==
    Cardinality({ i \in DOMAIN results : results[i].status = status })

\* C1: after ExecutorAgent.run(plan) has returned, step_results holds exactly
\* one result per plan step, in the plan's order and with the step's number,
\* every status is COMPLETED or FAILED (never PENDING), and so
\* count(COMPLETED) + count(FAILED) = len(steps).
C1_OneResolvedResultPerStep ==
    RunReturned =>
        /\ Len(RunResult.step_results) = Len(plan)
        /\ \A i \in DOMAIN plan :
              /\ RunResult.step_results[i].step_number = plan[i].step_number
              /\ RunResult.step_results[i].status \in {COMPLETED, FAILED}
        /\ CountStatus(RunResult.step_results, COMPLETED)
             + CountStatus(RunResult.step_results, FAILED) = Len(plan)

\* A two-step run has ended with one step COMPLETED and the other FAILED.
C1_Witness ==
    /\ RunReturned
    /\ Len(plan) = 2
    /\ CountStatus(RunResult.step_results, COMPLETED) = 1
    /\ CountStatus(RunResult.step_results, FAILED) = 1

\* The result recorded for step number n when the step at position i is
\* reached: the one of the last earlier position carrying that number.
RecordedBefore(results, i, n) ==
    LET earlier == { j \in 1..(i - 1) : j \in DOMAIN results /\ results[j].step_number = n }
    IN IF earlier = {} THEN << >>
       ELSE << results[CHOOSE j \in earlier : \A k \in earlier : k <= j] >>

\* Some dependency of the step at position i is missing from the results
\* recorded so far, or is recorded with a status other than COMPLETED.
UnmetDependency(results, i) ==
    \E dep \in plan[i].depends_on :
        \/ RecordedBefore(results, i, dep) = << >>
        \/ RecordedBefore(results, i, dep)[1].status # COMPLETED

\* The results ExecutorAgent.run has recorded so far
Recorded == IF execution_result # << >> THEN RunResult.step_results ELSE step_results

\* C2: in ExecutorAgent.run a step with a dependency that is missing from the
\* results recorded so far, or recorded as not COMPLETED, gets FAILED with
\* "Dependencies not met", no tool_result and retry_count 0, and its tool is
\* not invoked.
C2_UnmetDependencyFails ==
    entry = "executor" =>
        \A i \in DOMAIN Recorded :
            UnmetDependency(Recorded, i) =>
                /\ Recorded[i].status = FAILED
                /\ Recorded[i].error_message = "Dependencies not met"
                /\ Recorded[i].tool_result = << >>
                /\ Recorded[i].retry_count = 0
                /\ invoked[i].tools = 0
                /\ invoked[i].run = 0

\* ExecutorAgent.run has returned, and a step that depended on an earlier
\* step that FAILED after tool invocations was failed without an invocation.
C2_Witness ==
    /\ RunReturned
    /\ \E i \in DOMAIN plan :
          /\ UnmetDependency(RunResult.step_results, i)
          /\ \E dep \in plan[i].depends_on :
                /\ RecordedBefore(RunResult.step_results, i, dep) # << >>
                /\ RecordedBefore(RunResult.step_results, i, dep)[1].retry_count = max_retries
          /\ RunResult.step_results[i].error_message = "Dependencies not met"

\* The last _execute_step call has returned, and its tool was registered.
CallEnded == call_log.result # << >> /\ call_log.n > 0

\* C4: an _execute_step call on a registered tool whose every invocation
\* fails invokes the tool exactly max_retries times and returns FAILED with
\* retry_count = max_retries, no tool_result, and the error of the last failed
\* outcome ("Max retries exceeded" when that outcome carries no error text).
C4_AllAttemptsFail ==
    (CallEnded /\ call_log.first_success = 0) =>
        /\ call_log.n = max_retries
        /\ invoked[call_log.pos].tools = max_retries
        /\ call_log.result[1].status = FAILED
        /\ call_log.result[1].retry_count = max_retries
        /\ call_log.result[1].tool_result = << >>
        /\ call_log.result[1].error_message =
              IF call_log.last[1].error \in {NONE, ""}
              THEN "Max retries exceeded" ELSE call_log.last[1].error

\* A call has failed max_retries times, the last time with an error text.
C4_Witness ==
    /\ CallEnded
    /\ call_log.first_success = 0
    /\ call_log.n = 3
    /\ call_log.result[1].error_message = "Rate limit"

\* C5: when the tool first succeeds on the k-th invocation of an
\* _execute_step call, the result is COMPLETED, carries that outcome, has
\* retry_count = k - 1, and the tool is not invoked again in that call.
C5_SuccessOnKthAttempt ==
    call_log.first_success > 0 =>
        /\ call_log.first_success \in 1..max_retries
        /\ call_log.result # << >>
        /\ call_log.result[1].status = COMPLETED
        /\ call_log.result[1].tool_result = call_log.last
        /\ call_log.last[1].success
        /\ call_log.result[1].retry_count = call_log.first_success - 1
        /\ call_log.n = call_log.first_success
        /\ invoked[call_log.pos].tools = call_log.first_success
        /\ pc # "invoke" /\ pc # "sleep"

\* A call has succeeded on its last permitted invocation.
C5_Witness ==
    /\ call_log.first_success = max_retries
    /\ call_log.result # << >>
    /\ call_log.result[1].retry_count = 2

\* C6: in every run result of ExecutorAgent.run, success = (count of COMPLETED
\* = number of steps), partial_success = (count of COMPLETED > 0 and not
\* success), and the two are never both true.
C6_SuccessFlags ==
    RunReturned =>
        LET n == CountStatus(RunResult.step_results, COMPLETED)
        IN /\ RunResult.success = (n = Len(plan))
           /\ RunResult.partial_success = (n > 0 /\ ~RunResult.success)
           /\ ~(RunResult.success /\ RunResult.partial_success)

\* A run has returned with partial_success.
C6_Witness ==
    /\ RunReturned
    /\ RunResult.partial_success
    /\ ~RunResult.success
    /\ Len(plan) = 2

\* ------------------------------------------------- AgentOrchestrator.run
\* AgentOrchestrator.run has returned its response
PipelineDone == entry = "run" /\ pc = "done" /\ returned # << >>
Returned == returned[1]
FirstPass == hist.first_pass[1]

UniqueNumbers(p) ==
    \A i, j \in DOMAIN p : p[i].step_number = p[j].step_number => i = j

\* depends_on names only numbers of steps listed earlier
BackwardOnly(p) ==
    \A i \in DOMAIN p : \A dep \in p[i].depends_on :
        \E j \in 1..(i - 1) : p[j].step_number = dep

\* The step at position i failed in the first pass for unmet dependencies.
DependencyFailed(i) ==
    /\ FirstPass.step_results[i].status = FAILED
    /\ FirstPass.step_results[i].error_message = "Dependencies not met"
    /\ invoked[i].run = 0

\* C3 (as claimed, on plans with unique numbers and backward dependencies):
\* across a whole AgentOrchestrator.run, recovery included, a step that
\* FAILED for unmet dependencies is not retried: no tool is ever invoked for
\* it and its tool_result is absent in the returned response.
C3_DependencyFailedNeverRetried ==
    (PipelineDone /\ UniqueNumbers(plan) /\ BackwardOnly(plan)) =>
        \A i \in DOMAIN plan :
            DependencyFailed(i) =>
                /\ invoked[i].tools = 0
                /\ invoked[i].recovery = 0
                /\ Returned.execution.step_results[i].tool_result = << >>

\* The recovery phase of this run is over.
RecoveryOver == hist.recovering /\ pc \in {"reverifying", "finish", "done"}

\* C8: for a plan with unique step numbers, recovery calls _execute_step
\* exactly once for each step that was FAILED after the first execution and
\* for no other step, replaces exactly those entries of step_results, and
\* leaves the COMPLETED entries, the length and the order unchanged.
C8_RecoveryFrame ==
    (RecoveryOver /\ UniqueNumbers(plan)) =>
        LET before == FirstPass.step_results
            after == execution_result[1].step_results
        IN /\ Len(after) = Len(before)
           /\ \A i \in DOMAIN before :
                 /\ after[i].step_number = before[i].step_number
                 /\ before[i].status = FAILED =>
                       /\ invoked[i].recovery = 1
                       /\ hist.recov_results[i] = << after[i] >>
                 /\ before[i].status = COMPLETED =>
                       /\ invoked[i].recovery = 0
                       /\ hist.recov_results[i] = << >>
                       /\ after[i] = before[i]

\* Recovery is over for a two-step plan whose steps are listed against their
\* numbers: the COMPLETED step was left alone, the FAILED one now COMPLETED.
C8_Witness ==
    /\ RecoveryOver
    /\ Len(plan) = 2
    /\ plan[1].step_number = 2
    /\ plan[2].step_number = 1
    /\ FirstPass.step_results[1].status = FAILED
    /\ FirstPass.step_results[2].status = COMPLETED
    /\ execution_result[1].step_results[1].status = COMPLETED

\* C9: in every response of AgentOrchestrator.run, with or without recovery,
\* execution.success and execution.partial_success agree with the final
\* step_results, verification is the result of the last verification and was
\* computed on that final run result, and with the fallback verifier
\* completeness_score = count(COMPLETED) / number of steps (0 for no steps).
C9_ResponseConsistent ==
    PipelineDone =>
        LET er == Returned.execution
            n == CountStatus(er.step_results, COMPLETED)
            total == Len(er.step_results)
        IN /\ total = Len(plan)
           /\ er.success = (n = total)
           /\ er.partial_success = (n > 0 /\ n < total)
           /\ Returned.verification = verification[1]
           /\ hist.verified_on = << er >>
           /\ hist.n_verify = IF hist.recovering THEN 2 ELSE 1
           /\ hist.verifier = "fallback" =>
                 /\ Returned.verification.completeness_score.num * (IF total = 0 THEN 1 ELSE total)
                       = n * Returned.verification.completeness_score.den
                 /\ Returned.verification.completeness_score.den > 0

\* A response after recovery, verified by the fallback verifier, with some
\* but not all steps COMPLETED.
C9_Witness ==
    /\ PipelineDone
    /\ hist.recovering
    /\ hist.verifier = "fallback"
    /\ Returned.execution.partial_success
    /\ ~FirstPass.partial_success

\* C10: the success of every response of AgentOrchestrator.run equals
\* verification.is_valid AND execution.success, on the final verification
\* and the final run result.
C10_ResponseSuccess ==
    PipelineDone =>
        Returned.success = (verification[1].is_valid /\ execution_result[1].success)

\* A response whose run result succeeded after recovery but whose final
\* verification is not valid.
C10_Witness ==
    /\ PipelineDone
    /\ hist.recovering
    /\ execution_result[1].success
    /\ ~verification[1].is_valid
    /\ ~Returned.success

\* ------------------------------------------------ run and run_with_retry
\* C7: AgentOrchestrator.run enters the recovery phase only when, after the
\* first verification, the run result's success is false and the
\* verification's completeness_score is below 1.0; a run whose run result
\* has success = true re-executes no step, under run and under
\* run_with_retry alike.  (Until the re-verification, verification is still
\* the first one.)
C7_RecoveryOnlyWhenIncomplete ==
    /\ (hist.recovering /\ hist.n_verify = 1) =>
          /\ ~FirstPass.success
          /\ ScoreLT(verification[1].completeness_score, Score(1, 1))
    /\ (hist.first_pass # << >> /\ FirstPass.success) =>
          /\ ~hist.recovering
          /\ pc \notin {"recover_loop", "reverifying"}
          /\ caller # "recovery"
          /\ \A i \in DOMAIN invoked :
                invoked[i].recovery = 0 /\ invoked[i].run = 1

\* Under run_with_retry, a second attempt has ended without recovery although
\* its first verification scored below 1.0, because its run result succeeded.
C7_Witness ==
    /\ entry = "run_with_retry"
    /\ attempt = 1
    /\ pc = "retry_check"
    /\ Len(plan) > 0
    /\ FirstPass.success
    /\ hist.n_verify = 1
    /\ ScoreLT(verification[1].completeness_score, Score(1, 1))

\* --------------------------------------------------------- run_with_retry
\* run_with_retry has returned
RetryReturned == entry = "run_with_retry" /\ pc = "done"

\* C11: run_with_retry(task, max_attempts) with max_attempts >= 1 calls
\* AgentOrchestrator.run at most max_attempts times; no attempt follows an
\* attempt whose response has success = true, and that response is the one
\* returned; when no attempt is successful, all max_attempts attempts are
\* made and the response returned is unsuccessful and carries the largest
\* completeness_score of all the attempts.
C11_RetryReturnsFirstSuccessOrBest ==
    (entry = "run_with_retry" /\ max_attempts >= 1) =>
        /\ runs <= max_attempts
        /\ Len(attempts_made) <= runs
        /\ \A i \in 1..(Len(attempts_made) - 1) : ~attempts_made[i].success
        /\ RetryReturned =>
              /\ runs = Len(attempts_made)
              /\ returned # << >>
              /\ IF attempts_made[Len(attempts_made)].success
                 THEN /\ returned = response
                      /\ Returned.success
                 ELSE /\ Len(attempts_made) = max_attempts
                      /\ ~Returned.success
                      /\ \E i \in DOMAIN attempts_made :
                            Attempt(Returned) = attempts_made[i]
                      /\ \A i \in DOMAIN attempts_made :
                            ~ScoreLT(Returned.verification.completeness_score,
                                     attempts_made[i].completeness_score)

\* Two unsuccessful attempts were made, the first with the larger score, and
\* the first was returned.
C11_Witness ==
    /\ RetryReturned
    /\ max_attempts = 2
    /\ Len(attempts_made) = 2
    /\ ~attempts_made[1].success /\ ~attempts_made[2].success
    /\ ScoreLT(attempts_made[2].completeness_score, attempts_made[1].completeness_score)
    /\ Attempt(Returned) = attempts_made[1]

\* ------------------------------------------------------- VerifierAgent.run
\* The calls of the verifier driver that were answered by the fallback
FallbackCalls == { i \in DOMAIN verify_log : verify_log[i].path = "fallback" }

\* The position of the k-th FAILED result
KthFailed(results, k) ==
    CHOOSE i \in DOMAIN results :
        /\ results[i].status = FAILED
        /\ Cardinality({ j \in 1..i : results[j].status = FAILED }) = k

\* C12: the fallback verification of a run result has completeness_score =
\* count(COMPLETED) / number of step results (0 when there is none), so a
\* score in [0, 1]; is_valid is true exactly when more than half of the
\* results are COMPLETED; issues holds one entry per FAILED result, in the
\* order of step_results, with that result's step number and error message;
\* suggestions is empty.
C12_FallbackVerification ==
    \A c \in FallbackCalls :
        LET results == verify_log[c].input.step_results
            v == verify_log[c].result[1]
            total == Len(results)
            done == CountStatus(results, COMPLETED)
        IN /\ v.completeness_score.den > 0
           /\ v.completeness_score.num >= 0
           /\ v.completeness_score.num <= v.completeness_score.den
           /\ IF total = 0 THEN v.completeness_score.num = 0
              ELSE v.completeness_score.num * total = done * v.completeness_score.den
           /\ v.is_valid = (2 * done > total)
           /\ Len(v.issues) = CountStatus(results, FAILED)
           /\ \A k \in DOMAIN v.issues :
                 /\ v.issues[k].step_number = results[KthFailed(results, k)].step_number
                 /\ v.issues[k].error = results[KthFailed(results, k)].error_message
           /\ v.suggestions = << >>

\* The fallback verified a run result of four steps, three of them
\* COMPLETED: the score is 3/4 and the result is valid, with one issue.
C12_Witness ==
    \E c \in FallbackCalls :
        /\ Len(verify_log[c].input.step_results) = 4
        /\ CountStatus(verify_log[c].input.step_results, COMPLETED) = 3
        /\ verify_log[c].result[1].completeness_score = Score(3, 4)
        /\ verify_log[c].result[1].is_valid
        /\ Len(verify_log[c].result[1].issues) = 1

C15_VerifierFaultFallsBack ==
    /\ \A c \in DOMAIN verify_log :
          /\ verify_log[c].generate_calls <= 1
          /\ verify_log[c].fault # NONE =>
                /\ verify_log[c].path = "fallback"
                /\ verify_log[c].result
                      = << create_fallback_verification(verify_log[c].input) >>
    /\ raised = << >>
    /\ pc # "raised"

\* Both kinds of fault were answered by the fallback: a service error on the
\* first request, and output that was not JSON on every request.
C15_Witness ==
    /\ Len(verify_log) = 2
    /\ verify_log[1].fault = "APIError" /\ verify_log[1].requests = 1
    /\ verify_log[2].fault = "RetryError" /\ verify_log[2].requests = generate_attempts
    /\ verify_log[2].result # << >>
    /\ pc = "done"

\* ------------------------------------------------------------ tool faults
\* The last tool invocation of the current or last _execute_step call raised.
LastRaised == call_log.out # << >> /\ call_log.out[1].kind = "raise"

\* C17: when a tool's execute raises during a step, the executor receives a
\* failed ToolResult whose error is the exception's message; the invocation
\* uses up one attempt of the step (retry_count is the number of invocations
\* that have failed, and after max_retries of them the step is FAILED); and
\* no exception leaves ExecutorAgent.run or AgentOrchestrator.run.
C17_ToolFaultContained ==
    /\ LastRaised =>
          /\ ~call_log.last[1].success
          /\ call_log.last[1].error = call_log.out[1].error
          /\ call_log.last[1].data = NONE
          /\ pc = "sleep" => retry_count = call_log.n
          /\ pc = "invoke" => retry_count = call_log.n - 1
          /\ pc \in {"sleep", "invoke"} => call_log.result = << >>
          /\ pc \notin {"sleep", "invoke"} =>
                /\ call_log.result # << >>
                /\ call_log.result[1].status = FAILED
                /\ call_log.result[1].retry_count = max_retries
                /\ call_log.n = max_retries
    /\ raised = << >>
    /\ pc # "raised"

\* AgentOrchestrator.run has returned a response although the last call of
\* _execute_step, made in recovery, ended with an invocation that raised:
\* the step is FAILED with the exception's message.
C17_Witness ==
    /\ PipelineDone
    /\ LastRaised
    /\ call_log.who = "recovery"
    /\ call_log.result[1].status = FAILED
    /\ call_log.result[1].error_message = "timeout"
    /\ call_log.n = max_retries

\* ------------------------------------------------------ faults of planning
\* C14 (as claimed): for every task text, when the planner's generate call
\* faults, PlannerAgent.run returns the fallback plan of the task, which has
\* at least one step, raises nothing, and AgentOrchestrator.run goes on to
\* execute that plan.
C14_PlanningNeverFails ==
    hist.planner = "fallback" =>
        /\ raised = << >>
        /\ pc # "raised"
        /\ Len(plan) >= 1
        /\ plan = create_fallback_plan(task).steps

\* C16 (as claimed): an exception raised by on_plan_created or by
\* on_verification_complete does not leave AgentOrchestrator.run: the run
\* goes through its phases and returns a response.
C16_CallbackFaultContained ==
    /\ raised # << >> =>
          raised[1].origin \notin {"on_plan_created", "on_verification_complete"}
    /\ (pc = "raised" /\ raised # << >>) => raised[1].type # "CallbackError"

\* C18 (as claimed): a step whose tool is not in the registry is FAILED with
\* "Tool not found: {tool}", retry_count 0 and no tool invocation; and the
\* response for a two-step plan whose step 1 has an unregistered tool and
\* whose step 2 depends on step 1 holds step 1 FAILED ("Tool not found"),
\* step 2 FAILED ("Dependencies not met"), partial_success = false and
\* success = false.
C18_UnregisteredTool ==
    /\ (call_log.pos > 0 /\ plan[call_log.pos].tool \notin DOMAIN registry) =>
          /\ call_log.result # << >>
          /\ call_log.result[1].status = FAILED
          /\ call_log.result[1].error_message = ToolNotFound(plan[call_log.pos].tool)
          /\ call_log.result[1].retry_count = 0
          /\ call_log.n = 0
          /\ invoked[call_log.pos].tools = 0
    /\ (/\ PipelineDone
        /\ Len(plan) = 2
        /\ plan[1].tool \notin DOMAIN registry
        /\ plan[2].depends_on = {1}) =>
          LET er == Returned.execution
          IN /\ er.step_results[1].status = FAILED
             /\ er.step_results[1].error_message = ToolNotFound(plan[1].tool)
             /\ er.step_results[2].status = FAILED
             /\ er.step_results[2].error_message = "Dependencies not met"
             /\ ~er.partial_success
             /\ ~er.success

\* ------------------------------------------------------ what callers get
\* C19 (as claimed): every call of AgentOrchestrator.run(task) and of
\* run_with_retry(task, max_attempts), for every max_attempts >= 0, ends by
\* returning a response that carries a success boolean and a verification
\* with a formatted_response; it never ends with no response or with an
\* exception.
C19_AlwaysAResponse ==
    (entry \in {"run", "run_with_retry"} /\ pc \in {"done", "raised"}) =>
        /\ raised = << >>
        /\ returned # << >>
        /\ Returned.success \in BOOLEAN
        /\ "formatted_response" \in DOMAIN Returned.verification

\* execute_task has answered the request
Answered == pc = "responded" /\ http # << >>

\* C20: execute_task calls run_with_retry with max_attempts = 2 when
\* retry_on_failure is true and calls run, once, when it is false; one
\* request makes AgentOrchestrator.run run at most twice.
C20_RequestSelectsEntry ==
    (request # << >> /\ request[1].orchestrator_set /\ pc # "request") =>
        /\ request[1].retry_on_failure =>
              /\ entry = "run_with_retry"
              /\ max_attempts = 2
              /\ runs <= 2
        /\ ~request[1].retry_on_failure =>
              /\ entry = "run"
              /\ runs <= 1
              /\ attempts_made = << >>
              /\ Answered => runs = 1

\* A request with retry_on_failure was answered after two runs of the
\* pipeline, neither of them successful.
C20_Witness ==
    /\ Answered
    /\ request[1].retry_on_failure
    /\ runs = 2
    /\ Len(attempts_made) = 2
    /\ http[1].status = 200
    /\ ~http[1].success

\* ------------------------------------------------------------ ToolRegistry
\* The tool that log's calls leave registered under tool_type: the one of the
\* last register call for it that no clear call follows.
LastRegistered(log, tool_type) ==
    LET regs == { k \in 1..Len(log) :
                    /\ log[k].op = "register"
                    /\ log[k].tool.tool_type = tool_type
                    /\ \A j \in (k + 1)..Len(log) : log[j].op # "clear" }
    IN IF regs = {} THEN << >>
       ELSE << log[CHOOSE k \in regs : \A j \in regs : j <= k].tool >>

\* C21: ToolRegistry.get(id) returns the tool most recently registered under
\* id since the last clear, or nothing when there is none (so register on an
\* id that is taken overwrites it and leaves the other ids alone, and clear
\* empties the registry); get_all returns that mapping, and a change the
\* caller makes to the returned mapping changes nothing get returns.
C21_RegistryContract ==
    entry = "registry" =>
        /\ \A t \in ToolTypes : get(registry, t) = LastRegistered(reg_log, t)
        /\ held.op = "get" =>
              held.ret = LastRegistered(SubSeq(reg_log, 1, held.at), held.arg)
        /\ held.op = "get_all" =>
              /\ DOMAIN held.ret[1] =
                   { t \in ToolTypes : LastRegistered(SubSeq(reg_log, 1, held.at), t) # << >> }
              /\ \A t \in DOMAIN held.ret[1] :
                   << held.ret[1][t] >> = LastRegistered(SubSeq(reg_log, 1, held.at), t)

\* get returned the second of two tools registered under one id, while the
\* other id is registered too.
C21_Witness ==
    /\ entry = "registry"
    /\ held.op = "get"
    /\ held.at = Len(reg_log)
    /\ \E j, k \in 1..Len(reg_log) :
          /\ j < k
          /\ reg_log[j].op = "register" /\ reg_log[k].op = "register"
          /\ reg_log[j].tool.tool_type = held.arg
          /\ reg_log[k].tool.tool_type = held.arg
          /\ reg_log[j].tool # reg_log[k].tool
          /\ held.ret = << reg_log[k].tool >>
    /\ \E t \in ToolTypes \ {held.arg} : get(registry, t) # << >>

\* C22 (as claimed): once AgentOrchestrator.run has started, a lookup of a
\* tool that was registered at startup never returns nothing, so no step
\* with such a tool is recorded as "Tool not found", also while another
\* orchestrator is constructed in the same process.
C22_StartupToolsStayRegistered ==
    entry = "run" =>
        \A i \in DOMAIN step_results :
            plan[i].tool \in DOMAIN StartupRegistry =>
                step_results[i].error_message # ToolNotFound(plan[i].tool)

\* ------------------------------------------------------------- termination
\* C23: when every tool invocation and every generate call returns or
\* faults, AgentOrchestrator.run reaches its end and run_with_retry returns,
\* and run_with_retry never makes more than max_attempts runs.
C23_EntryPointsTerminate ==
    /\ <>(pc = "done")
    /\ [](entry = "run_with_retry" => runs <= max_attempts)

\* run_with_retry has returned after MaxAttempts runs, the last of which
\* went through recovery with its step's retries used up again.
C23_Witness ==
    /\ entry = "run_with_retry"
    /\ pc = "done"
    /\ max_attempts = MaxAttempts
    /\ runs = max_attempts
    /\ hist.recovering
    /\ call_log.who = "recovery"
    /\ call_log.n = max_retries

\* ------------------------------------------------------------- end to end
\* "Find Python repos and weather in London": "repo" and "weather" are
\* keywords, "london" is a listed city, and "in" is followed by "London".
QuickTestTask ==
    [github_kw |-> TRUE, weather_kw |-> TRUE, common_city |-> TRUE,
     after_prep |-> << "upper" >>]

\* Every tool invocation of the run so far returned valid data: each plan
\* position has as many invocations as _execute_step calls that completed.
ToolsAlwaysValid ==
    \A i \in DOMAIN invoked :
        invoked[i].tools =
            (IF hist.first_pass # << >>
                /\ hist.first_pass[1].step_results[i].status = COMPLETED THEN 1 ELSE 0)
            + (IF hist.recovering /\ hist.recov_results[i] # << >>
                  /\ hist.recov_results[i][1].status = COMPLETED THEN 1 ELSE 0)

\* C24: with the text-generation service unavailable to planner and verifier
\* and both tools returning valid data, AgentOrchestrator.run on "Find Python
\* repos and weather in London" plans exactly a repository search as step 1
\* and a weather query for the listed city as step 2, completes both, does
\* not enter recovery, and responds with success, completeness 1.0 and a
\* report whose blocks are GITHUB REPOSITORIES followed by WEATHER.
C24_QuickTest ==
    ( /\ entry = "run"
      /\ pc = "done"
      /\ task = QuickTestTask
      /\ hist.planner = "fallback"
      /\ hist.verifier = "fallback"
      /\ ToolsAlwaysValid ) =>
        /\ plan = << [step_number |-> 1, tool |-> "github", depends_on |-> {}],
                     [step_number |-> 2, tool |-> "weather", depends_on |-> {}] >>
        /\ extract_city(task) = "City"
        /\ \A i \in DOMAIN plan :
              /\ returned[1].execution.step_results[i].step_number = i
              /\ returned[1].execution.step_results[i].status = COMPLETED
        /\ ~hist.recovering
        /\ returned[1].success
        /\ ScoreEQ(returned[1].verification.completeness_score, Score(1, 1))
        /\ returned[1].verification.formatted_response.blocks =
              << "GITHUB REPOSITORIES:", "WEATHER:" >>

\* That run has returned, each of its two tools invoked once.
C24_Witness ==
    /\ entry = "run"
    /\ pc = "done"
    /\ task = QuickTestTask
    /\ hist.planner = "fallback"
    /\ hist.verifier = "fallback"
    /\ ToolsAlwaysValid
    /\ Len(invoked) = 2
    /\ \A i \in DOMAIN invoked : invoked[i].tools = 1
    /\ returned # << >>

\* ------------------------------------------------------------- GitHubTool
\* The text names the rate limit.
RateLimitText(msg) ==
    msg \in { api_error("403"), "Rate limit", "Rate limit exceeded" }

\* An _execute_step call has ended in which the API answered every request
\* of every invocation with 403.
AlwaysRateLimited ==
    /\ call_log.pos > 0
    /\ call_log.result # << >>
    /\ call_log.out # << >>
    /\ call_log.first_success = 0
    /\ \A k \in 1..request_attempts : call_log.out[1].answers[k] = "403"

\* C25 (as claimed): when the search API answers every request with 403, the
\* step ends FAILED with retry_count 3 and an error_message that carries the
\* tool's rate-limit text, and nothing is raised past the tool.
C25_RateLimitReported ==
    (entry = "executor" /\ AlwaysRateLimited) =>
        /\ call_log.out[1].kind = "return"
        /\ raised = << >>
        /\ call_log.result[1].status = FAILED
        /\ call_log.result[1].retry_count = 3
        /\ RateLimitText(call_log.result[1].error_message)

\* ------------------------------------------------ dependencies and recovery
\* C26 (as claimed): in every response of AgentOrchestrator.run on a plan with
\* unique step numbers and backward-only dependencies, a step whose final
\* status is COMPLETED has every step it depends on COMPLETED too, also
\* after recovery.
C26_CompletedHasCompletedDependencies ==
    (PipelineDone /\ UniqueNumbers(plan) /\ BackwardOnly(plan)) =>
        \A i \in DOMAIN plan :
            Returned.execution.step_results[i].status = COMPLETED =>
                \A j \in DOMAIN plan :
                    plan[j].step_number \in plan[i].depends_on =>
                        Returned.execution.step_results[j].status = COMPLETED

\* C27: in recovery the result of a re-executed step is decided by the tool
\* invocations of its own _execute_step call alone (the tool is invoked
\* whatever became of the steps it depends on, and the step is COMPLETED
\* exactly when one of these invocations succeeded), and recovery is one
\* pass: no step is re-executed twice in a run, only steps FAILED in the
\* first pass are re-executed, and the verifier runs at most once more,
\* even when steps are still FAILED afterwards.
C27_RecoveryIsOneIndependentPass ==
    entry = "run" =>
        /\ ( /\ call_log.who = "recovery"
             /\ call_log.result # << >>
             /\ plan[call_log.pos].tool \in DOMAIN registry ) =>
                /\ call_log.n >= 1
                /\ call_log.result[1].status = COMPLETED <=> call_log.first_success > 0
                /\ call_log.result[1].status = FAILED <=> call_log.first_success = 0
                /\ call_log.result[1].status = FAILED =>
                      /\ call_log.n = max_retries
                      /\ call_log.result[1].error_message # "Dependencies not met"
        /\ \A i \in DOMAIN invoked :
              /\ invoked[i].recovery <= 1
              /\ invoked[i].recovery = 1 =>
                    /\ hist.recovering
                    /\ FirstPass.step_results[i].status = FAILED
        /\ hist.n_verify <= 2

\* A run has returned in which recovery completed a step whose dependency
\* was FAILED before and after recovery, and no step was re-executed twice.
C27_Witness ==
    /\ PipelineDone
    /\ hist.recovering
    /\ UniqueNumbers(plan) /\ BackwardOnly(plan)
    /\ \E i, j \in DOMAIN plan :
          /\ plan[j].step_number \in plan[i].depends_on
          /\ invoked[i].recovery = 1
          /\ invoked[j].recovery = 1
          /\ hist.recov_results[i] # << >>
          /\ hist.recov_results[i][1].status = COMPLETED
          /\ Returned.execution.step_results[j].status = FAILED
    /\ ~Returned.execution.success

\* ----------------------------------------------------------------- backoff
\* The seconds slept in all.
TotalBackoff(waits) ==
    LET F[k \in 0..Len(waits)] == IF k = 0 THEN 0 ELSE F[k - 1] + waits[k]
    IN F[Len(waits)]

\* C28: within one _execute_step call the executor sleeps k seconds after the
\* k-th failed outcome when attempts remain (1 after the first, 2 after the
\* second) and does not sleep after the last failed attempt; a step that
\* fails all max_retries = 3 attempts has slept 1 + 2 = 3 seconds in all.
C28_LinearBackoff ==
    (entry = "executor" /\ call_log.n >= 1) =>
        /\ Len(call_log.waits) = call_log.n - 1
        /\ \A k \in DOMAIN call_log.waits : call_log.waits[k] = k
        /\ pc = "sleep" =>
              /\ retry_count = call_log.n
              /\ retry_count < max_retries
        /\ ( /\ call_log.result # << >>
             /\ call_log.first_success = 0 ) =>
                /\ call_log.n = max_retries
                /\ call_log.result[1].retry_count = max_retries
                /\ Len(call_log.waits) = max_retries - 1
                /\ TotalBackoff(call_log.waits) = 3

\* A step has failed all its attempts, with two sleeps in between.
C28_Witness ==
    /\ entry = "executor"
    /\ call_log.result # << >>
    /\ call_log.first_success = 0
    /\ call_log.n = max_retries
    /\ call_log.waits = << 1, 2 >>
    /\ call_log.result[1].status = FAILED

\* ------------------------------------------------- a failed step in a run
\* The steps that the step at position i of a plan numbered 1, 2, ... in
\* order depends on, directly or through other steps.
AllDependencies(p) ==
    LET D[i \in 0..Len(p)] ==
            IF i = 0 THEN {}
            ELSE p[i].depends_on
                 \cup UNION { D[d] : d \in p[i].depends_on \cap (1..(i - 1)) }
    IN D

\* C29: in ExecutorAgent.run a failed step is fatal to that step only: the
\* run goes through every step; a step whose depends_on is empty or holds
\* only COMPLETED steps has its tool invoked, whatever failed before it; a
\* step that depends directly or through other steps on a FAILED step ends
\* FAILED with "Dependencies not met", its tool never invoked.
C29_FailedStepIsFatalToItsDependantsOnly ==
    RunReturned =>
        /\ Len(RunResult.step_results) = Len(plan)
        /\ \A i \in DOMAIN plan :
              /\ (\A d \in plan[i].depends_on :
                      RunResult.step_results[d].status = COMPLETED)
                   => invoked[i].tools >= 1
              /\ (\E f \in AllDependencies(plan)[i] :
                      RunResult.step_results[f].status = FAILED)
                   => /\ RunResult.step_results[i].status = FAILED
                      /\ RunResult.step_results[i].error_message = "Dependencies not met"
                      /\ invoked[i].tools = 0

\* Step 1 failed all its attempts, step 2 depends on it, step 3 on step 2
\* alone, and step 4 on nothing: steps 2 and 3 failed uninvoked, step 4
\* was invoked and completed.
C29_Witness ==
    /\ RunReturned
    /\ Len(plan) = 4
    /\ plan[2].depends_on = {1}
    /\ plan[3].depends_on = {2}
    /\ plan[4].depends_on = {}
    /\ invoked[1].tools = max_retries
    /\ RunResult.step_results[1].status = FAILED
    /\ RunResult.step_results[3].error_message = "Dependencies not met"
    /\ invoked[3].tools = 0
    /\ invoked[4].tools >= 1
    /\ RunResult.step_results[4].status = COMPLETED

\* ------------------------------------------------------- sequential steps
\* C30: ExecutorAgent.run processes the steps one after the other in listed
\* order: results are recorded in that order; a step's tool is first invoked
\* only after the results of all steps before it are recorded; the only tool
\* invocation in flight is that of the step after the recorded ones; and the
\* dependency check sees only steps already processed, so in a plan with
\* unique step numbers a step that depends on itself or on a step listed
\* later ends FAILED with "Dependencies not met", its tool never invoked.
C30_StepsRunSequentially ==
    (entry = "executor" /\ pc # "executing") =>
        /\ Len(Recorded) <= Len(plan)
        /\ \A k \in DOMAIN Recorded :
              Recorded[k].step_number = plan[k].step_number
        /\ \A i \in DOMAIN invoked :
              (invoked[i].tools >= 1 \/ invoked[i].run >= 1) =>
                  /\ Len(Recorded) >= i - 1
                  /\ invoked[i].run = 1
        /\ pc \in {"invoke", "sleep"} =>
              /\ cur = idx
              /\ Len(Recorded) = idx - 1
              /\ \A i \in DOMAIN invoked : i > cur => invoked[i].tools = 0
        /\ UniqueNumbers(plan) =>
              \A i \in DOMAIN Recorded :
                  (\E j \in i..Len(plan) : plan[j].step_number \in plan[i].depends_on) =>
                      /\ Recorded[i].status = FAILED
                      /\ Recorded[i].error_message = "Dependencies not met"
                      /\ invoked[i].tools = 0

\* A run has returned whose first step depends on the second, which was
\* invoked after the first was recorded as failed.
C30_Witness ==
    /\ RunReturned
    /\ UniqueNumbers(plan)
    /\ Len(plan) = 2
    /\ plan[2].step_number \in plan[1].depends_on
    /\ plan[2].depends_on = {}
    /\ RunResult.step_results[1].error_message = "Dependencies not met"
    /\ invoked[1].tools = 0
    /\ invoked[2].tools >= 1
    /\ RunResult.step_results[2].status = COMPLETED

\* ------------------------------------------------------- phases of a run
\* The phase a run is in: 1 PLANNING, 2 EXECUTING, 3 VERIFYING, 4 RECOVERING
\* (_retry_failed_steps, its verification included), 5 DONE.
PhaseOf(at, who) ==
    IF at = "planning" THEN 1
    ELSE IF at \in {"executing", "exec_loop"} THEN 2
    ELSE IF at \in {"invoke", "sleep"} THEN (IF who = "recovery" THEN 4 ELSE 2)
    ELSE IF at \in {"verifying", "verified"} THEN 3
    ELSE IF at \in {"recover_loop", "reverifying"} THEN 4
    ELSE 5

\* C31: in one AgentOrchestrator.run the phases come in the order PLANNING,
\* EXECUTING, VERIFYING, RECOVERING (optional), DONE and none is entered
\* again once left; the planner runs exactly once, ExecutorAgent.run is
\* started exactly once (after planning) and the verifier has run exactly
\* once at the end when recovery was not entered and exactly twice when it
\* was.
C31_PhasesInOrder ==
    /\ [][ /\ PhaseOf(pc', caller') >= PhaseOf(pc, caller)
           /\ pc' = "planning" => pc = "planning"
           /\ pc' = "executing" => pc \in {"planning", "executing"}
           /\ pc' = "exec_loop" => pc \in {"executing", "exec_loop", "invoke"}
           /\ pc' = "verifying" => pc \in {"exec_loop", "verifying"}
           /\ pc' = "recover_loop" => pc \in {"verified", "recover_loop", "invoke"}
         ]_vars
    /\ [](entry = "run" =>
            /\ runs = (IF pc = "planning" THEN 0 ELSE 1)
            /\ hist.recovering => PhaseOf(pc, caller) >= 4
            /\ pc = "done" =>
                  /\ hist.first_pass # << >>
                  /\ hist.n_verify = (IF hist.recovering THEN 2 ELSE 1))

\* A run has ended after recovery, the verifier having run twice.
C31_Witness ==
    /\ PipelineDone
    /\ hist.recovering
    /\ hist.n_verify = 2
    /\ \E i \in DOMAIN invoked : invoked[i].recovery = 1 /\ invoked[i].run = 1

\* --------------------------------------------------------------- callbacks
\* The calls of the callback name among the calls made so far in this run
CallsOf(name) == { k \in DOMAIN hist.fired : hist.fired[k].cb = name }

C33_RetryLayersBounded ==
    /\ \A i \in DOMAIN invoked :
          /\ invoked[i].run <= 1
          /\ invoked[i].recovery <= 1
          /\ invoked[i].tools <= (invoked[i].run + invoked[i].recovery) * max_retries
          /\ invoked[i].tools <= 2 * max_retries
    /\ entry = "run" => runs <= 1
    /\ entry = "run_with_retry" =>
          /\ runs <= max_attempts
          /\ \A i \in DOMAIN invoked :
                (runs - 1) * 2 * max_retries + invoked[i].tools
                    <= max_attempts * 2 * max_retries

\* The last run run_with_retry may make has used up both budgets of its step.
C33_Witness ==
    /\ entry = "run_with_retry"
    /\ max_attempts = MaxAttempts
    /\ runs = max_attempts
    /\ \E i \in DOMAIN invoked : invoked[i].tools = 2 * max_retries

\* ------------------------------------------------------------ fallback plan
\* C34: the fallback plan has 1 or 2 steps numbered 1, 2 in order, each with
\* empty depends_on: a repository search exactly when a repository keyword
\* matches or no keyword matches at all, a weather query exactly when a
\* weather keyword matches, the repository search first when both match;
\* when neither matches, the single repository search has the first 50
\* characters of the task as its query.
C34_FallbackPlanShape ==
    (entry = "run" /\ hist.planner = "fallback" /\ pc # "raised") =>
        LET fallback == create_fallback_plan(task)
        IN /\ plan = fallback.steps
           /\ Len(plan) \in {1, 2}
           /\ Len(fallback.parameters) = Len(plan)
           /\ \A i \in DOMAIN plan :
                 plan[i].step_number = i /\ plan[i].depends_on = {}
           /\ (\E i \in DOMAIN plan : plan[i].tool = "weather") <=> task.weather_kw
           /\ (\E i \in DOMAIN plan : plan[i].tool = "github")
                 <=> (task.github_kw \/ ~task.weather_kw)
           /\ (task.github_kw /\ task.weather_kw) =>
                 (plan[1].tool = "github" /\ plan[2].tool = "weather")
           /\ Len(plan) = 2 => (task.github_kw /\ task.weather_kw)
           /\ (~task.github_kw /\ ~task.weather_kw) =>
                 /\ Len(plan) = 1
                 /\ fallback.parameters[1] = [query |-> "task[:50]", limit |-> 5]
           /\ task.github_kw => fallback.parameters[1].query # "task[:50]"

\* The fallback plan was made for a task with both kinds of keyword and is
\* being executed.
C34_Witness ==
    /\ entry = "run"
    /\ hist.planner = "fallback"
    /\ task.github_kw /\ task.weather_kw
    /\ Len(plan) = 2
    /\ pc = "exec_loop"

\* The steps of a run result whose payload _build_final_output may take for
\* the tool: COMPLETED, with a ToolResult of that tool and a non-empty payload
Carrying(er, tool) ==
    { i \in DOMAIN er.step_results :
        /\ er.step_results[i].status = COMPLETED
        /\ er.step_results[i].tool_result # << >>
        /\ er.step_results[i].tool_result[1].tool = tool
        /\ er.step_results[i].tool_result[1].data \notin {NONE, ""} }

\* The last of a non-empty set of positions
LastOf(S) == CHOOSE i \in S : \A j \in S : j <= i

\* C35: in the final_output of the fallback verification, data has an entry
\* for a tool exactly when some COMPLETED step of that tool has a non-empty
\* payload; the entry is the payload of the last such step in step order,
\* and no payload of a FAILED step is an entry.
C35_DataMergesCompletedPayloads ==
    \A e \in FallbackCalls :
        LET er == verify_log[e].input
            data == verify_log[e].result[1].final_output.data
        IN /\ DOMAIN data = { t \in ToolTypes : Carrying(er, t) # {} }
           /\ \A t \in DOMAIN data :
                 data[t] = er.step_results[LastOf(Carrying(er, t))].tool_result[1].data
           /\ \A i \in DOMAIN er.step_results :
                 /\ er.step_results[i].status = FAILED
                 /\ er.step_results[i].tool_result # << >>
                 => \A t \in DOMAIN data :
                      data[t] # er.step_results[i].tool_result[1].data

\* C35 witness: a fallback verification of a run result with two COMPLETED
\* github steps of different payloads and a FAILED step that carries one
C35_Witness ==
    \E e \in FallbackCalls :
        LET er == verify_log[e].input
            data == verify_log[e].result[1].final_output.data
        IN /\ Cardinality(Carrying(er, "github")) = 2
           /\ \E i, j \in Carrying(er, "github") :
                 /\ i < j
                 /\ er.step_results[i].tool_result[1].data
                      # er.step_results[j].tool_result[1].data
                 /\ data["github"] = er.step_results[j].tool_result[1].data
           /\ \E i \in DOMAIN er.step_results :
                 /\ er.step_results[i].status = FAILED
                 /\ er.step_results[i].tool_result # << >>

\* The lines of a report an issue was written to, as the issues they show
ShownIssues(lines) ==
    LET shown == SelectSeq(lines, LAMBDA l : l.prefix = "  - ")
    IN [k \in 1..Len(shown) |-> shown[k].text]

\* The number of repositories a report lists
ShownRepositories(lines) ==
    Len(SelectSeq(lines, LAMBDA l : l.prefix = "  " /\ l.text = "full_name"))

\* The positions of a heading among the lines of a report
HeadingAt(lines, heading) ==
    { k \in DOMAIN lines : lines[k].prefix = "" /\ lines[k].text = heading }

\* C36: the report of the fallback verification starts with the banner
\* header and ends with the footer banner; it has the repository block only
\* when github data is present, the weather block only when weather data is
\* present and the issues block only when there are issues, in that order;
\* it lists at most 5 repositories and every issue.
C36_ReportLayout ==
    \A e \in FallbackCalls :
        LET v == verify_log[e].result[1]
            data == v.final_output.data
            lines == v.formatted_response.lines
            repos == HeadingAt(lines, "GITHUB REPOSITORIES:")
            weather == HeadingAt(lines, "WEATHER:")
            issues == HeadingAt(lines, "ISSUES:")
        IN /\ Len(lines) >= 5
           /\ SubSeq(lines, 1, 4) = << Banner, Line("", "RESULTS"), Banner, Line("", "") >>
           /\ lines[Len(lines)] = Banner
           /\ Cardinality(repos) = (IF "github" \in DOMAIN data THEN 1 ELSE 0)
           /\ Cardinality(weather) = (IF "weather" \in DOMAIN data THEN 1 ELSE 0)
           /\ Cardinality(issues) = (IF v.issues # << >> THEN 1 ELSE 0)
           /\ \A r \in repos, w \in weather : r < w
           /\ \A r \in repos, i \in issues : r < i
           /\ \A w \in weather, i \in issues : w < i
           /\ ShownRepositories(lines) <= 5
           /\ "github" \in DOMAIN data =>
                 \/ ShownRepositories(lines) = repositories(data["github"])
                 \/ ShownRepositories(lines) = 5 /\ repositories(data["github"]) > 5
           /\ "github" \notin DOMAIN data => ShownRepositories(lines) = 0
           /\ ShownIssues(lines) = v.issues

\* C36 witness: a fallback report with all three blocks, made from a github
\* payload of 6 repositories of which 5 are listed, and from an issue
C36_Witness ==
    \E e \in FallbackCalls :
        LET v == verify_log[e].result[1]
            data == v.final_output.data
            lines == v.formatted_response.lines
        IN /\ DOMAIN data = {"github", "weather"}
           /\ repositories(data["github"]) = 6
           /\ ShownRepositories(lines) = 5
           /\ v.formatted_response.blocks
                = << "GITHUB REPOSITORIES:", "WEATHER:", "ISSUES:" >>
           /\ Len(v.issues) >= 1
           /\ ShownIssues(lines) = v.issues

\* C37: in run_with_retry a later unsuccessful response replaces the
\* response kept so far only when its completeness_score is strictly higher,
\* and when no attempt is successful the response kept is the one returned:
\* of several attempts with the highest score the earliest is returned.
C37_EarliestOfEqualScoresIsKept ==
    /\ [][ (pc = "retry_check" /\ best_response # << >> /\ best_response' # best_response)
              => /\ ~response[1].success
                 /\ best_response' = response
                 /\ ScoreLT(best_response[1].verification.completeness_score,
                            response[1].verification.completeness_score) ]_vars
    /\ []( (RetryReturned /\ attempts_made # << >>
              /\ \A i \in DOMAIN attempts_made : ~attempts_made[i].success)
            => returned = best_response )

\* C37 witness: two unsuccessful attempts of the same score gave different
\* responses, and the one returned is not the later one
C37_Witness ==
    /\ RetryReturned
    /\ Len(attempts_made) = 2
    /\ ~attempts_made[1].success /\ ~attempts_made[2].success
    /\ ScoreEQ(attempts_made[1].completeness_score, attempts_made[2].completeness_score)
    /\ returned # << >>
    /\ returned # response

\* C38: for a plan of no steps ExecutorAgent.run returns success = TRUE and
\* partial_success = FALSE, the fallback verification has completeness_score
\* 0 and is_valid = FALSE, recovery is not entered, and the response built
\* from the fallback verification has success = FALSE.
C38_EmptyPlan ==
    (entry = "run" /\ plan = << >> /\ execution_result # << >>) =>
        /\ execution_result[1].step_results = << >>
        /\ execution_result[1].success
        /\ ~execution_result[1].partial_success
        /\ ~hist.recovering
        /\ pc \notin {"recover_loop", "reverifying"}
        /\ failed_steps = << >>
        /\ (verification # << >> /\ hist.verifier = "fallback") =>
              /\ ScoreEQ(verification[1].completeness_score, Score(0, 1))
              /\ ~verification[1].is_valid
              /\ returned # << >> => /\ ~Returned.success
                                     /\ Returned.plan = << >>
                                     /\ Returned.verification = verification[1]

\* C38 witness: run has returned for a generated plan of no steps that the
\* fallback verification judged
C38_Witness ==
    /\ entry = "run"
    /\ pc = "done"
    /\ hist.planner = "llm"
    /\ plan = << >>
    /\ hist.verifier = "fallback"
    /\ hist.n_verify = 1
    /\ returned # << >>
    /\ Returned.execution.success
    /\ ~Returned.success

\* The response a call has returned is the one its own plan, its own tool
\* outcomes and its own verification give: the results are those of its
\* first pass with those of its recovery put in, the flags are those of the
\* results, and the verification was made on this run result.
OwnResponse(f) ==
    (f.pc = "done" /\ f.returned # << >>) =>
        LET resp == f.returned[1]
            first == f.hist.first_pass[1].step_results
            final == resp.execution.step_results
        IN /\ resp.plan = f.plan
           /\ f.hist.planner = "fallback" => f.plan = create_fallback_plan(f.task).steps
           /\ resp.execution = f.execution_result[1]
           /\ resp.verification = f.verification[1]
           /\ Len(final) = Len(f.plan)
           /\ \A i \in DOMAIN final :
                 final[i] = IF f.hist.recovering /\ f.hist.recov_results[i] # << >>
                            THEN f.hist.recov_results[i][1] ELSE first[i]
           /\ resp.execution.success = (success_count(final) = Len(final))
           /\ resp.execution.partial_success
                = (success_count(final) > 0 /\ success_count(final) < Len(final))
           /\ f.hist.verified_on = << resp.execution >>
           /\ resp.success = (resp.verification.is_valid /\ resp.execution.success)

InsideServiceCall(at) ==
    at \in {"planning", "verifying", "reverifying", "invoke", "sleep"}

\* C40: every external-service call of a call of AgentOrchestrator.run
\* (planning, verification, tool execution) and every backoff wait is a
\* suspension point: once a call has begun, while one call is inside it,
\* another call on the same event loop that has not ended can make progress.
C40_ServiceCallsSuspend ==
    (/\ suspended # << >>
     /\ InsideServiceCall(pc)
     /\ hist.planner # NONE \/ suspended[1].hist.planner # NONE
     /\ ~ended(suspended[1].pc))
    => ENABLED Switch

====
